---- MODULE Spec2Model ----
(***************************************************************************)
(* Station 95 schedule chatbot: the poll cycle (poller lock, message       *)
(* queue, router, workflow store) as a state machine.                      *)
(*                                                                         *)
(* Every poller process instance runs main(): AgenticCoordinator()         *)
(* (startup expiry sweep), then GroupMePoller.poll(): acquire lock,        *)
(* fetch, ingest into the queue, drain the queue through the router,       *)
(* expire old queue entries, release lock.  Each action below is one       *)
(* access to a shared durable store (lock file, cursor file, queue table,  *)
(* workflow table) together with the local computation that follows it,   *)
(* so that the interleavings of two process instances are those the        *)
(* stores allow.                                                           *)
(***************************************************************************)
EXTENDS Integers, Sequences, FiniteSets, TLC

(* ------------------------------ bounds -------------------------------- *)
MaxMsgs == 2          \* the plain runs post messages 1..MaxMsgs
MaxMsgsEsc == 3       \* the escalation runs post messages 1..MaxMsgsEsc
MaxPollsRoute == 1    \* the routing and escalation runs start this many cycles
MaxPolls == 2         \* process starts explored by Spec (two instances)
MaxPollsSeq == 5      \* process starts explored by SpecSeq (one instance)
MaxTicks == 1         \* clock advances explored
MaxFaults == 1        \* store calls that fail
MaxWf == 2            \* workflow rows that can be created

(* -------------------------- program constants ------------------------- *)
PollerTimeoutMinutes == 30
MessageExpiryHours == 24
WorkflowExpirationHours == 24
MaxRetryAttempts == 3
WorkflowInteractionLimit == 2
RelatedThreshold == 50
IntentThreshold == 50

Instances == {"A", "B"}
MsgIds == 1..MaxMsgsEsc
WfIds == 1..MaxWf
Confidences == {RelatedThreshold - 1, RelatedThreshold}
TickSteps == {PollerTimeoutMinutes, PollerTimeoutMinutes + 1, MessageExpiryHours * 60 + 1}

ActiveStatuses == {"NEW", "WAITING_FOR_INPUT", "READY", "EXECUTING"}

VARIABLES
  now,        \* wall clock, minutes
  ticks,      \* clock advances so far
  polls,      \* process starts so far
  faults,     \* failed store calls so far
  posted,     \* messages 1..posted exist in the chat
  sender,     \* per message: the squad of its sender (0: not in the roster)
  stamp,      \* per message: its created_at in the chat, in seconds
  sweep,      \* the last store operation run on its own, and the count a sweep returned
  lock,       \* the lock file
  cursor,     \* the last-message-id state file (0: no file)
  queue,      \* message_queue table, by message id
  wf,         \* workflows table, by creation order
  pc,         \* per instance: position in main()/poll()
  loc,        \* per instance: local variables of poll() and route_message()
  notifs,     \* admin notifications sent, by kind
  doneCount,  \* per message id: processing attempts that ended DONE
  failCount,  \* per message id: FAILED transitions written by update_status
  eng,        \* the workflow engine: one workflow's row, the state in memory, what was sent
  call        \* the calendar client: one send_command_with_retry call in progress

vars == <<now, ticks, polls, faults, posted, sender, stamp, sweep, lock, cursor, queue, wf, pc, loc,
          notifs, doneCount, failCount, eng, call>>

(* ------------------------------ the stores ---------------------------- *)
\* The roster the plain runs use: who posts message m, as a squad number, or
\* 0 for a sender that is not in the roster.
Roster(m) == CASE m % 3 = 1 -> 34
               [] m % 3 = 2 -> 42
               [] OTHER     -> 0

\* Roster.get_member_squad of the sender of message m.
Sender(m) == sender[m]

\* route_message with the roster check left out.
IsAuthorizedAnyone(squad) == TRUE

\* Roster.is_authorized: the sender is a member of the roster.
IsAuthorized(squad) == squad # 0

\* What PollerLock.acquire makes of the content of the lock file:
\*   "valid"       a JSON object whose started_at is an ISO date string
\*   "garbled"     no JSON, no started_at key, or a string that is no ISO date
\*                 (JSONDecodeError, KeyError, ValueError)
\*   "mistyped"    JSON that is no object, or a started_at that is no string
\*                 (TypeError)
\*   "unreadable"  the file cannot be read (OSError)
CorruptKinds == {"garbled", "mistyped", "unreadable"}

\* PollerLock.acquire: except (json.JSONDecodeError, KeyError, ValueError)
CaughtKinds == {"garbled"}

\* alerts counts the poller_timeout events raised about the record; it is not
\* part of the file.
NoLock == [exists |-> FALSE, holder |-> "none", started_at |-> 0, kind |-> "valid",
           alerts |-> 0]

NoRow == [rows |-> 0, status |-> "NONE", retry_count |-> 0,
          error_message |-> "none", created_at |-> 0]

\* resumes counts the resume_workflow calls the relatedness check has led to;
\* it is not part of the row.
NoWf == [status |-> "NONE", squad_id |-> 0, expires_at |-> 0, interaction_count |-> 0,
         resumes |-> 0]

\* runs: how many times in a row the last sweep has run (2: twice or more);
\* prev: the count its run before the last returned.
NoSweep == [last |-> "none", count |-> 0, runs |-> 0, prev |-> 0]

\* The record of a sweep that has returned count.
Swept(kind, count) ==
  [last |-> kind, count |-> count,
   runs |-> IF sweep.last = kind THEN 2 ELSE 1,
   prev |-> IF sweep.last = kind THEN sweep.count ELSE 0]

InitLoc == [scoped |-> FALSE, last_message_id |-> 0, new_messages |-> <<>>, queued_count |-> 0,
            pending_messages |-> <<>>,
            idx |-> 0, current_retry |-> 0, workflow |-> 0, wstatus |-> "NONE",
            action |-> "none", result |-> "none",
            cands |-> <<>>, answers |-> <<>>, intent |-> "unasked", sent |-> 0,
            unheard |-> 0]

RECURSIVE AscSeq(_)
AscSeq(S) == IF S = {} THEN <<>>
             ELSE LET x == CHOOSE x \in S : \A y \in S : x <= y
                  IN  <<x>> \o AscSeq(S \ {x})

RECURSIVE DescSeq(_)
DescSeq(S) == IF S = {} THEN <<>>
              ELSE LET x == CHOOSE x \in S : \A y \in S : x >= y
                   IN  <<x>> \o DescSeq(S \ {x})

\* A staleness test that also reclaims a record exactly as old as the timeout.
IsStaleAtTimeout(started_at, t) == t - started_at >= PollerTimeoutMinutes

\* PollerLock.acquire: age > timeout
IsStale(started_at, t) == t - started_at > PollerTimeoutMinutes

\* PollerLock.acquire: what the call does with the lock file it finds.
AcquireOutcome(l, t) ==
  IF ~l.exists THEN "create"
  ELSE IF l.kind \in CaughtKinds THEN "overwrite"
  ELSE IF l.kind # "valid" THEN "raise"
  ELSE IF IsStale(l.started_at, t) THEN "reclaim"
  ELSE "yield"

\* PollerLock._create_lock
CreateLockRecord(i, t) ==
  [exists |-> TRUE, holder |-> i, started_at |-> t, kind |-> "valid", alerts |-> 0]

\* insert_message written as an upsert: an existing row is overwritten.
InsertMessageUpsert(q, m, t) ==
  [q EXCEPT ![m] = [rows |-> 1, status |-> "PENDING", retry_count |-> 0,
                    error_message |-> "none", created_at |-> t]]

\* The message_queue table holds message_id as a unique column: the store
\* refuses the insert of a row whose message_id is already there.
UniqueViolation(q, m) == q[m].rows > 0

\* MessageQueueManager.insert_message: a plain insert.  When the store refuses
\* it the call raises, the except clause logs and returns None, and the
\* stored row is left as it was.
InsertMessage(q, m, t) ==
  IF UniqueViolation(q, m)
    THEN q
    ELSE [q EXCEPT ![m] = [rows |-> 1, status |-> "PENDING", retry_count |-> 0,
                           error_message |-> "none", created_at |-> t]]

\* The ways of listing the elements of S in non-descending timestamp order.
OrderedBy(S, ts) ==
  { p \in [1..Cardinality(S) -> S] :
      /\ \A j \in 1..Cardinality(S) : \A k \in 1..Cardinality(S) : j # k => p[j] # p[k]
      /\ \A k \in 1..(Cardinality(S) - 1) : ts[p[k]] <= ts[p[k + 1]] }

\* get_pending_messages selecting the PENDING rows only.
GetPendingOnly(q, ts) ==
  OrderedBy({m \in MsgIds : q[m].rows > 0 /\ q[m].status = "PENDING"}, ts)

\* MessageQueueManager.get_pending_messages on a successful read: the rows
\* with status PENDING or FAILED, ordered by the timestamp column (the
\* message's created_at); rows with equal timestamps come in an order the
\* store chooses.
GetPendingMessages(q, ts) ==
  OrderedBy({m \in MsgIds : q[m].rows > 0 /\ q[m].status \in {"PENDING", "FAILED"}}, ts)

\* MessageQueueManager.update_status for PROCESSING and DONE: one update by
\* message id, whatever the stored status is.
UpdateStatus(q, m, status) ==
  IF q[m].rows > 0 THEN [q EXCEPT ![m].status = status] ELSE q

\* MessageQueueManager.update_status for FAILED, its update statement: the
\* retry count written is the one read before, plus one.
UpdateStatusFailed(q, m, current_retry) ==
  IF q[m].rows > 0
    THEN [q EXCEPT ![m].status = "FAILED", ![m].error_message = "err",
                   ![m].retry_count = current_retry + 1]
    ELSE q

\* MessageQueueManager.expire_old_messages
\* expire_old_messages selecting EXPIRED rows again.
ExpiresMessageAgain(row, t) ==
  /\ row.rows > 0
  /\ row.created_at < t - MessageExpiryHours * 60
  /\ row.status \notin {"DONE", "SKIPPED"}

\* expire_old_messages leaving alone the entries a cycle has claimed.
ExpiresMessageUnclaimed(row, t) ==
  /\ row.rows > 0
  /\ row.created_at < t - MessageExpiryHours * 60
  /\ row.status \in {"PENDING", "FAILED"}

ExpiresMessage(row, t) ==
  /\ row.rows > 0
  /\ row.created_at < t - MessageExpiryHours * 60
  /\ row.status \notin {"DONE", "EXPIRED", "SKIPPED"}

\* expire_old_messages resetting the retry counter of the rows it expires.
ExpireOldMessagesReset(q, t) ==
  [m \in MsgIds |-> IF ExpiresMessage(q[m], t)
                      THEN [q[m] EXCEPT !.status = "EXPIRED", !.retry_count = 0] ELSE q[m]]

ExpireOldMessages(q, t) ==
  [m \in MsgIds |-> IF ExpiresMessage(q[m], t)
                      THEN [q[m] EXCEPT !.status = "EXPIRED"] ELSE q[m]]

\* ConversationStateManager.expire_old_workflows
\* expire_old_workflows selecting by expires_at alone.
ExpiresWorkflowAnyStatus(row, t) ==
  /\ row.status # "NONE"
  /\ row.expires_at < t

\* The rows expire_old_workflows selects: active status, expires_at < now.
ExpiresWorkflow(row, t) ==
  /\ row.status \in ActiveStatuses
  /\ row.expires_at < t

ExpireOldWorkflows(w, t) ==
  [k \in WfIds |-> IF ExpiresWorkflow(w[k], t)
                     THEN [w[k] EXCEPT !.status = "EXPIRED"] ELSE w[k]]

\* ConversationStateManager.get_active_workflows_for_squad: newest first
\* get_active_workflows_for_squad returning the oldest workflow first.
ActiveWorkflowsOldestFirst(w, squad) ==
  AscSeq({k \in WfIds : w[k].status \in ActiveStatuses /\ w[k].squad_id = squad})

ActiveWorkflowsForSquad(w, squad) ==
  DescSeq({k \in WfIds : w[k].status \in ActiveStatuses /\ w[k].squad_id = squad})

\* ConversationStateManager.get_active_workflow: newest active one of the
\* group, 0 if none
\* get_active_workflow finding no active workflow.
ActiveWorkflowNone(w) == 0

ActiveWorkflow(w) ==
  LET act == {k \in WfIds : w[k].status \in ActiveStatuses}
  IN  IF act = {} THEN 0 ELSE CHOOSE k \in act : \A j \in act : k >= j

\* ConversationStateManager.create_workflow: the id of the inserted row
NextWfId(w) ==
  LET free == {k \in WfIds : w[k].status = "NONE"}
  IN  IF free = {} THEN 0 ELSE CHOOSE k \in free : \A j \in free : k <= j

CreateWorkflow(w, squad, t) ==
  [w EXCEPT ![NextWfId(w)] = [status |-> "NEW", squad_id |-> squad,
                              expires_at |-> t + WorkflowExpirationHours * 60,
                              interaction_count |-> 0, resumes |-> 0]]

\* The results of one run of the workflow graph (create_shift_workflow): the
\* node it ended in, the validation flag and the execution result's status.
StepResults ==
  { [current_step |-> "request_clarification", validation_passed |-> TRUE, exec |-> "none"],
    [current_step |-> "complete_no_action", validation_passed |-> TRUE, exec |-> "no_action_needed"],
    [current_step |-> "validate", validation_passed |-> FALSE, exec |-> "none"],
    [current_step |-> "validate", validation_passed |-> TRUE, exec |-> "error"],
    [current_step |-> "execute", validation_passed |-> TRUE, exec |-> "prepared"] }

\* WorkflowManager._update_workflow_from_state: the status written
NewStatus(status, r) ==
  CASE r.current_step = "request_clarification" -> "WAITING_FOR_INPUT"
    [] r.current_step = "complete_no_action" -> "COMPLETED"
    [] r.current_step = "validate" /\ r.validation_passed -> "READY"
    [] r.current_step = "execute" ->
         IF r.exec = "prepared" THEN "EXECUTING" ELSE "COMPLETED"
    [] OTHER -> status

\* ConversationRouter.route_message, the loop over the squad's workflows: the
\* first candidate the classifier marks related at or above the threshold
RECURSIVE FirstRelated(_, _)
FirstRelated(cands, ans) ==
  IF cands = <<>> THEN 0
  ELSE IF ans[Head(cands)].related /\ ans[Head(cands)].confidence >= RelatedThreshold
         THEN Head(cands)
         ELSE FirstRelated(Tail(cands), ans)

\* The answers of the relatedness classifier, one per candidate, and of the
\* intent classifier
Range(f) == {f[x] : x \in DOMAIN f}
RelatedAnswers(cands) == [Range(cands) -> [related : BOOLEAN, confidence : Confidences]]
IntentAnswers == [is_shift_coverage_message : BOOLEAN, confidence : Confidences]

\* route_message: intent["is_shift_coverage_message"] and intent["confidence"] >= 50
Actionable(intent) ==
  intent.is_shift_coverage_message /\ intent.confidence >= IntentThreshold

\* A store call goes through (ok) or fails; at most MaxFaults calls fail.
Reliable == {TRUE}
Faulty == BOOLEAN
StoreOk(F) == IF faults < MaxFaults THEN F ELSE {TRUE}
Fault(ok) == IF ok THEN faults ELSE faults + 1

Cur(i) == loc[i].pending_messages[loc[i].idx + 1]

\* GroupMePoller.poll: where the drain loop goes after an entry
NextEntry(i) ==
  IF loc[i].idx + 1 < Len(loc[i].pending_messages) THEN "drain" ELSE "expire"


(***************************************************************************)
(* The workflow engine: one step of the shift coverage graph on a          *)
(* workflow's state, the state's serialization, and what WorkflowManager   *)
(* does with the result.                                                   *)
(***************************************************************************)

\* A LangChain message object: its class, its content, additional_kwargs,
\* the tool-call fields of its class (tool_calls of an AIMessage,
\* tool_call_id of a ToolMessage) and, as meta, the attributes the serializer
\* does not look at (id, name, response_metadata).
MsgObject(type, content, calls, call_id, meta) ==
  [form |-> "object", type |-> type, content |-> content, additional_kwargs |-> "{}",
   keys |-> {}, tool_calls |-> calls, tool_call_id |-> call_id, meta |-> meta]

MessageClasses == {"HumanMessage", "AIMessage", "SystemMessage", "ToolMessage"}

\* _serialize_message: a dict is passed through; an object becomes a dict
\* with its class name, content and additional_kwargs, plus tool_call_id for
\* a ToolMessage and tool_calls for an AIMessage.
SerializeMessage(m) ==
  IF m.form = "dict" THEN m
  ELSE [form |-> "dict", type |-> m.type, content |-> m.content,
        additional_kwargs |-> m.additional_kwargs,
        keys |-> {"type", "content", "additional_kwargs"}
                   \cup (IF m.type = "ToolMessage" THEN {"tool_call_id"} ELSE {})
                   \cup (IF m.type = "AIMessage" THEN {"tool_calls"} ELSE {}),
        tool_calls |-> IF m.type = "AIMessage" THEN m.tool_calls ELSE <<>>,
        tool_call_id |-> IF m.type = "ToolMessage" THEN m.tool_call_id ELSE "",
        meta |-> ""]

\* _deserialize_message building a HumanMessage whatever the type says.
DeserializeMessageAsHuman(d) ==
  IF d.form = "object" THEN d
  ELSE MsgObject("HumanMessage", d.content, <<>>, "", "")

\* _deserialize_message: an object is passed through; a dict becomes an
\* object of the class its type names (HumanMessage for an unknown or
\* missing type), with tool_call_id or tool_calls read back where the class
\* has them.
DeserializeMessage(d) ==
  IF d.form = "object" THEN d
  ELSE LET t   == IF "type" \in d.keys THEN d.type ELSE "HumanMessage"
           cls == IF t \in MessageClasses THEN t ELSE "HumanMessage"
       IN  [form |-> "object", type |-> cls,
            content |-> IF "content" \in d.keys THEN d.content ELSE "",
            additional_kwargs |-> IF "additional_kwargs" \in d.keys
                                    THEN d.additional_kwargs ELSE "{}",
            keys |-> {},
            tool_calls |-> IF t = "AIMessage" /\ "tool_calls" \in d.keys
                             THEN d.tool_calls ELSE <<>>,
            tool_call_id |-> IF t = "ToolMessage" /\ "tool_call_id" \in d.keys
                               THEN d.tool_call_id ELSE "",
            meta |-> ""]

\* serialize_state: a copy of the state with every message serialized.
SerializeState(st) ==
  IF st.messages # <<>>
    THEN [st EXCEPT !.messages = [k \in 1..Len(st.messages) |-> SerializeMessage(st.messages[k])]]
    ELSE st

\* deserialize_state: a copy of the state with every message deserialized.
DeserializeState(st) ==
  IF st.messages # <<>>
    THEN [st EXCEPT !.messages = [k \in 1..Len(st.messages) |-> DeserializeMessage(st.messages[k])]]
    ELSE st

\* execution_result of a state: None, or the dict the execute node, the
\* no-action node or _handle_workflow_outputs has put there.
NoExec == [status |-> "none", commands |-> 0, successful |-> 0, failed |-> 0]

\* What extraction knows of the first request's parameters: absent ("none"),
\* present and well-formed ("ok"), present and malformed ("bad"), or present
\* with a type validation cannot handle ("mistyped": a date given as a number).
NoFields == [squad |-> "none", date |-> "none", shift_start |-> "none", shift_end |-> "none"]

\* start_workflow, initial_state: the state of a new workflow, holding the
\* request; extra stands for the keys the engine does not know.
InitialState ==
  [messages |-> <<MsgObject("HumanMessage", "request", <<>>, "", "")>>,
   parsed_requests |-> 0, rest_ok |-> TRUE, fields |-> NoFields, action |-> "none",
   missing_parameters |-> <<>>, validation_warnings |-> {}, validation_passed |-> TRUE,
   execution_result |-> NoExec, current_step |-> "extract_parameters",
   clarification_question |-> "none", interaction_count |-> 0, extra |-> "kept"]

\* request_clarification_node, priority_order.
PriorityOrder == <<"squad", "date", "shift_start", "shift_end", "action">>

\* request_clarification_node: the first parameter of the priority order that
\* is missing, or the first missing one if none of them is.
ParamToAsk(missing) ==
  LET hits == {k \in 1..Len(PriorityOrder) : PriorityOrder[k] \in Range(missing)}
  IN  IF hits = {} THEN missing[1]
      ELSE PriorityOrder[CHOOSE k \in hits : \A j \in hits : k <= j]

\* validate_parameters_node: the rules the fields fail, one warning each.
FailedRules(f) ==
  {[rule |-> "missing", param |-> p] :
      p \in {q \in {"squad", "date", "shift_start", "shift_end"} : f[q] = "none"}}
  \cup {[rule |-> "invalid", param |-> p] :
      p \in {q \in {"squad", "date", "shift_start", "shift_end"} : f[q] = "bad"}}

\* route_after_extraction.
RouteAfterExtraction(st) ==
  IF st.parsed_requests = 0 THEN "complete_no_action"
  ELSE IF st.missing_parameters # <<>> THEN "clarify"
  ELSE "validate"

\* _handle_workflow_outputs: the status it stores in execution_result.
AggregateStatus(failed, total) ==
  IF failed = 0 THEN "success" ELSE "partial"

\* The engine before any workflow exists: no row in the store, nothing sent.
NoOut == [questions |-> 0, asked |-> "none", warnings |-> {}, submitted |-> 0,
          confirmations |-> 0, errors |-> 0]

NoEng ==
  [pc |-> "idle", status |-> "none", row |-> InitialState, state |-> InitialState,
   before |-> "none", outcome |-> "none", trail |-> <<>>, out |-> NoOut,
   left |-> 0, successful |-> 0, failed |-> 0]

\* The calendar client before any call: nothing requested, nothing returned.
NoCall ==
  [pc |-> "idle", calls |-> 0, max_retries |-> 0, attempt |-> 0, last_error |-> "None",
   log |-> <<>>, result |-> "none", raised |-> "none", requests |-> 0]

(* ------------------------------- actions ------------------------------ *)
Init ==
  /\ now = 0 /\ ticks = 0 /\ polls = 0 /\ faults = 0 /\ posted = 0
  /\ sender = [m \in MsgIds |-> 0]
  /\ stamp = [m \in MsgIds |-> 0]
  /\ sweep = NoSweep
  /\ eng = NoEng
  /\ call = NoCall
  /\ lock = NoLock
  /\ cursor = 0
  /\ queue = [m \in MsgIds |-> NoRow]
  /\ wf = [k \in WfIds |-> NoWf]
  /\ pc = [i \in Instances |-> "idle"]
  /\ loc = [i \in Instances |-> InitLoc]
  /\ notifs = [poller_timeout |-> 0, workflow_escalation |-> 0,
               message_retry_exceeded |-> [m \in MsgIds |-> 0]]
  /\ doneCount = [m \in MsgIds |-> 0]
  /\ failCount = [m \in MsgIds |-> 0]

\* Time passes.
Tick ==
  /\ ticks < MaxTicks
  /\ \E d \in TickSteps : now' = now + d
  /\ ticks' = ticks + 1
  /\ UNCHANGED <<call, eng, polls, faults, posted, sender, stamp, sweep, lock, cursor, queue, wf, pc, loc,
                 notifs, doneCount, failCount>>

\* The next message is posted to the chat, by its sender of the roster.
Post ==
  /\ posted < MaxMsgs
  /\ posted' = posted + 1
  /\ sender' = [sender EXCEPT ![posted + 1] = Roster(posted + 1)]
  /\ stamp' = [stamp EXCEPT ![posted + 1] = posted + 1]
  /\ UNCHANGED <<call, eng, now, ticks, polls, faults, sweep, lock, cursor, queue, wf, pc, loc,
                 notifs, doneCount, failCount>>

\* The next message is posted to the chat, in a later second than the one
\* before it or in the same second.
PostQuick ==
  /\ posted < MaxMsgs
  /\ posted' = posted + 1
  /\ sender' = [sender EXCEPT ![posted + 1] = Roster(posted + 1)]
  /\ \E t \in {posted + 1} \cup {stamp[m] : m \in 1..posted} :
       /\ \A m \in 1..posted : stamp[m] <= t
       /\ stamp' = [stamp EXCEPT ![posted + 1] = t]
  /\ UNCHANGED <<call, eng, now, ticks, polls, faults, sweep, lock, cursor, queue, wf, pc, loc,
                 notifs, doneCount, failCount>>

\* The next message is posted to the chat, by a member of either squad or by
\* somebody who is not in the roster.
PostAny(cap) ==
  /\ posted < cap
  /\ posted' = posted + 1
  /\ \E s \in {0, 34, 42} : sender' = [sender EXCEPT ![posted + 1] = s]
  /\ stamp' = [stamp EXCEPT ![posted + 1] = posted + 1]
  /\ UNCHANGED <<call, eng, now, ticks, polls, faults, sweep, lock, cursor, queue, wf, pc, loc,
                 notifs, doneCount, failCount>>

\* main(): a process instance starts; AgenticCoordinator.__init__ runs the
\* workflow expiry sweep, then poll() is entered.
Start(i, cap) ==
  /\ pc[i] \in {"idle", "killed"}
  /\ polls < cap
  /\ polls' = polls + 1
  /\ wf' = ExpireOldWorkflows(wf, now)
  /\ pc' = [pc EXCEPT ![i] = "acquire"]
  /\ loc' = [loc EXCEPT ![i] = InitLoc]
  /\ UNCHANGED <<call, eng, now, ticks, faults, posted, sender, stamp, sweep, lock, cursor, queue, notifs,
                 doneCount, failCount>>

\* A process starts that uses the lock as a context manager:
\* with PollerLock(): body.
StartScoped(i, cap) ==
  /\ pc[i] \in {"idle", "killed"}
  /\ polls < cap
  /\ polls' = polls + 1
  /\ pc' = [pc EXCEPT ![i] = "acquire"]
  /\ loc' = [loc EXCEPT ![i] = [InitLoc EXCEPT !.scoped = TRUE]]
  /\ UNCHANGED <<call, eng, now, ticks, faults, posted, sender, stamp, sweep, lock, cursor, queue, wf, notifs,
                 doneCount, failCount>>

\* poll() placed so that the yielding return runs the finally clause.
AfterYieldRelease(i) == "release"

\* poll(): acquire() returned False; the result is returned before the try
\* statement is entered.  __enter__ raises RuntimeError.
AfterYield(i) == "idle"

\* The admin channel: a direct message goes out (TRUE) or its sending fails.
Heard == {TRUE}
Unreliable == BOOLEAN

\* notify_admin letting the error of a failed send through.
NotifyAdminRaising(delivered) == IF delivered THEN "sent" ELSE "raised"

\* notify_admin: the message is formatted and sent; an error is logged and
\* not raised.
NotifyAdmin(delivered) == IF delivered THEN "sent" ELSE "logged"

\* PollerLock.acquire up to its decision: the lock file is looked at and read.
\* A fresh record makes poll() yield; a stale one is reported to the admin and
\* overwritten; one the except clause covers is overwritten; any other error
\* of reading it leaves acquire() as an exception, which ends the process.
\* unheard counts the notifications of the cycle that did not go out.
AcquireNotifying(i, D) ==
  /\ pc[i] = "acquire"
  /\ \E delivered \in D :
     LET found   == AcquireOutcome(lock, now)
         note    == IF found = "reclaim" THEN NotifyAdmin(delivered) ELSE "none"
         outcome == IF note = "raised" THEN "raise" ELSE found
     IN
       /\ pc' = [pc EXCEPT ![i] =
                   CASE outcome = "yield" -> AfterYield(i)
                     [] outcome = "raise" -> "idle"
                     [] OTHER -> "create_lock"]
       /\ notifs' = IF note = "sent"
                      THEN [notifs EXCEPT !.poller_timeout = @ + 1]
                      ELSE notifs
       /\ lock' = IF found = "reclaim" THEN [lock EXCEPT !.alerts = @ + 1] ELSE lock
       /\ loc' = [loc EXCEPT ![i].result =
                    CASE outcome = "yield" -> "yielded"
                      [] outcome = "raise" -> "raised"
                      [] OTHER -> @,
                            ![i].unheard = IF note \in {"logged", "raised"} THEN @ + 1 ELSE @]
  /\ UNCHANGED <<call, eng, now, ticks, polls, faults, posted, sender, stamp, sweep, cursor, queue, wf,
                 doneCount, failCount>>

Acquire(i) == AcquireNotifying(i, Heard)

\* PollerLock._create_lock: the lock file is written; acquire returns True.
CreateLock(i) ==
  /\ pc[i] = "create_lock"
  /\ lock' = CreateLockRecord(i, now)
  /\ pc' = [pc EXCEPT ![i] = IF loc[i].scoped THEN "body" ELSE "fetch"]
  /\ UNCHANGED <<call, eng, now, ticks, polls, faults, posted, sender, stamp, sweep, cursor, queue, wf, loc,
                 notifs, doneCount, failCount>>

\* poll() step 1: load the cursor and fetch; a failed fetch returns early
\* (through the finally clause).
Fetch(i) ==
  /\ pc[i] = "fetch"
  /\ \E ok \in BOOLEAN :
       IF ok
         THEN /\ loc' = [loc EXCEPT ![i].last_message_id = cursor,
                           ![i].new_messages = AscSeq({m \in 1..posted : m > cursor})]
              /\ pc' = [pc EXCEPT ![i] = "ingest"]
         ELSE /\ loc' = [loc EXCEPT ![i].result = "fetch_failed"]
              /\ pc' = [pc EXCEPT ![i] = "release"]
  /\ UNCHANGED <<call, eng, now, ticks, polls, faults, posted, sender, stamp, sweep, lock, cursor, queue, wf,
                 notifs, doneCount, failCount>>

\* poll() step 2, one turn of the loop: insert_message (a failing insert is
\* logged, None is returned), then _save_last_message_id (a failing write of
\* the state file is logged).
Ingest(i, F) ==
  /\ pc[i] = "ingest"
  /\ loc[i].new_messages # <<>>
  /\ LET m == Head(loc[i].new_messages) IN
       /\ \E ok \in StoreOk(F), saved \in StoreOk(F) :
            /\ ok \/ saved
            /\ queue' = IF ok THEN InsertMessage(queue, m, now) ELSE queue
            /\ cursor' = IF saved THEN m ELSE cursor
            /\ faults' = Fault(ok /\ saved)
       /\ loc' = [loc EXCEPT ![i].new_messages = Tail(@), ![i].last_message_id = m,
                             ![i].queued_count = @ + 1]
  /\ UNCHANGED <<call, eng, now, ticks, polls, posted, sender, stamp, sweep, lock, wf, pc, notifs, doneCount, failCount>>

\* poll() step 3: the snapshot of pending entries.
GetPending(i, F) ==
  /\ pc[i] = "ingest"
  /\ loc[i].new_messages = <<>>
  /\ \E ok \in StoreOk(F) :
     \E pending \in (IF ok THEN GetPendingMessages(queue, stamp) ELSE {<<>>}) :
         /\ loc' = [loc EXCEPT ![i].pending_messages = pending, ![i].idx = 0]
         /\ pc' = [pc EXCEPT ![i] = IF pending = <<>> THEN "expire" ELSE "drain"]
         /\ faults' = Fault(ok)
  /\ UNCHANGED <<call, eng, now, ticks, polls, posted, sender, stamp, sweep, lock, cursor, queue, wf, notifs,
                 doneCount, failCount>>

\* Drain loop, head: update_status(PROCESSING) for the next entry.
BeginEntry(i, F) ==
  /\ pc[i] = "drain"
  /\ \E ok \in StoreOk(F) :
       /\ queue' = IF ok THEN UpdateStatus(queue, Cur(i), "PROCESSING") ELSE queue
       /\ faults' = Fault(ok)
  /\ pc' = [pc EXCEPT ![i] = "route"]
  /\ loc' = [loc EXCEPT ![i].action = "none", ![i].workflow = 0, ![i].wstatus = "NONE"]
  /\ UNCHANGED <<call, eng, now, ticks, polls, posted, sender, stamp, sweep, lock, cursor, wf, notifs,
                 doneCount, failCount>>

\* route_message's exits: the position, the outcome and the workflow held
RouteTo(i, where, action, w, wstatus) ==
  /\ pc' = [pc EXCEPT ![i] = where]
  /\ loc' = [loc EXCEPT ![i].action = action, ![i].workflow = w, ![i].wstatus = wstatus]

\* What route_message has found out and done itself when it comes to its
\* decision: the squad's candidates as read, the answers of the relatedness
\* classifier in the order asked, the answer of the intent classifier (if
\* asked), and the number of chat messages it has sent.
Routed(i, where, action, w, wstatus, cands, answers, intent, sent) ==
  /\ pc' = [pc EXCEPT ![i] = where]
  /\ loc' = [loc EXCEPT ![i].action = action, ![i].workflow = w, ![i].wstatus = wstatus,
                        ![i].cands = cands, ![i].answers = answers,
                        ![i].intent = intent, ![i].sent = sent]

\* route_message, the loop over the squad's workflows: the candidates the
\* classifier is asked about, up to and including the first accepted one.
RECURSIVE AskedOf(_, _)
AskedOf(cands, ans) ==
  IF cands = <<>> THEN <<>>
  ELSE IF ans[Head(cands)].related /\ ans[Head(cands)].confidence >= RelatedThreshold
         THEN <<Head(cands)>>
         ELSE <<Head(cands)>> \o AskedOf(Tail(cands), ans)

\* ConversationRouter.route_message up to its decision: the sender is looked
\* up, the squad's active workflows are read and the relatedness classifier is
\* asked about each; without a related one, the group's active workflow is
\* read and the intent classifier is asked.  A related workflow at the
\* interaction limit is escalated here; resuming and starting follow in Step
\* and CreateWf.
RouteMessage(i) ==
  /\ pc[i] = "route"
  /\ LET squad  == Sender(Cur(i))
         cands  == ActiveWorkflowsForSquad(wf, squad)
         active == ActiveWorkflow(wf)
     IN
     IF ~IsAuthorized(squad)
       THEN /\ Routed(i, "mark", "ignored", 0, "NONE", <<>>, <<>>, "unasked", 0)
            /\ UNCHANGED <<wf, notifs>>
       ELSE \E ans \in RelatedAnswers(cands) :
         LET rel     == FirstRelated(cands, ans)
             asked   == AskedOf(cands, ans)
             answers == [k \in 1..Len(asked) |-> ans[asked[k]]]
         IN
         IF rel # 0
           THEN IF wf[rel].interaction_count >= WorkflowInteractionLimit
                  THEN \E delivered \in BOOLEAN :
                       /\ notifs' = [notifs EXCEPT !.workflow_escalation = @ + 1]
                       /\ wf' = IF delivered THEN [wf EXCEPT ![rel].status = "EXPIRED"]
                                             ELSE wf
                       /\ Routed(i, "mark",
                                 IF delivered THEN "escalated_to_admin" ELSE "error",
                                 rel, IF delivered THEN "EXPIRED" ELSE wf[rel].status,
                                 cands, answers, "unasked", IF delivered THEN 1 ELSE 0)
                  ELSE /\ Routed(i, "step", "resumed_workflow", rel, wf[rel].status,
                                 cands, answers, "unasked", 0)
                       /\ wf' = [wf EXCEPT ![rel].resumes = @ + 1]
                       /\ UNCHANGED notifs
         ELSE IF active # 0 /\ wf[active].status = "WAITING_FOR_INPUT"
           THEN /\ Routed(i, "step", "resumed_workflow", active, wf[active].status,
                          cands, answers, "unasked", 0)
                /\ UNCHANGED <<wf, notifs>>
         ELSE \E intent \in IntentAnswers :
                LET said == IF Actionable(intent) THEN "actionable" ELSE "other" IN
                /\ IF ~Actionable(intent)
                     THEN Routed(i, "mark", "ignored", 0, "NONE", cands, answers, said, 0)
                     ELSE IF active # 0
                       THEN Routed(i, "mark", "rejected", 0, "NONE", cands, answers, said, 1)
                       ELSE Routed(i, "create", "started_workflow", 0, "NONE",
                                   cands, answers, said, 0)
                /\ UNCHANGED <<wf, notifs>>
  /\ UNCHANGED <<call, eng, now, ticks, polls, faults, posted, sender, stamp, sweep, lock, cursor, queue,
                 doneCount, failCount>>

\* WorkflowManager.start_workflow, create_workflow: the row is inserted as NEW.
CreateWf(i, F) ==
  /\ pc[i] = "create"
  /\ NextWfId(wf) # 0
  /\ \E ok \in StoreOk(F) :
       /\ faults' = Fault(ok)
       /\ IF ok
            THEN /\ wf' = CreateWorkflow(wf, Sender(Cur(i)), now)
                 /\ RouteTo(i, "step", "started_workflow", NextWfId(wf), "NEW")
            ELSE /\ wf' = wf
                 /\ RouteTo(i, "mark", "error", 0, "NONE")
  /\ UNCHANGED <<call, eng, now, ticks, polls, posted, sender, stamp, sweep, lock, cursor, queue, notifs,
                 doneCount, failCount>>

\* start_workflow / resume_workflow: one run of the graph on the workflow
\* object held, then _update_workflow_from_state writes the status computed
\* from it.  A raising step is caught by route_message (outcome error).
Step(i) ==
  /\ pc[i] = "step"
  /\ \E raised \in BOOLEAN, r \in StepResults :
       LET w == loc[i].workflow
           st == NewStatus(loc[i].wstatus, r)
       IN
       IF raised
         THEN /\ wf' = wf
              /\ RouteTo(i, "mark", "error", w, loc[i].wstatus)
         ELSE /\ wf' = [wf EXCEPT ![w].status = st]
              /\ RouteTo(i, IF r.exec = "prepared" THEN "handle" ELSE "mark",
                         loc[i].action, w, st)
  /\ UNCHANGED <<call, eng, now, ticks, polls, faults, posted, sender, stamp, sweep, lock, cursor, queue, notifs,
                 doneCount, failCount>>

\* WorkflowManager._handle_workflow_outputs with prepared commands: they are
\* sent, the workflow is written COMPLETED, the confirmation is sent (a send
\* that raises is caught by route_message: outcome error).
HandleOutputs(i) ==
  /\ pc[i] = "handle"
  /\ wf' = [wf EXCEPT ![loc[i].workflow].status = "COMPLETED"]
  /\ \E sent \in BOOLEAN :
       RouteTo(i, "mark", IF sent THEN loc[i].action ELSE "error",
               loc[i].workflow, "COMPLETED")
  /\ UNCHANGED <<call, eng, now, ticks, polls, faults, posted, sender, stamp, sweep, lock, cursor, queue, notifs,
                 doneCount, failCount>>

\* poll(): process_message returned (whatever the outcome): update_status(DONE).
MarkDone(i, F) ==
  /\ pc[i] = "mark"
  /\ \E ok \in StoreOk(F) :
       /\ queue' = IF ok THEN UpdateStatus(queue, Cur(i), "DONE") ELSE queue
       /\ doneCount' = IF ok THEN [doneCount EXCEPT ![Cur(i)] = @ + 1] ELSE doneCount
       /\ faults' = Fault(ok)
  /\ pc' = [pc EXCEPT ![i] = NextEntry(i)]
  /\ loc' = [loc EXCEPT ![i].idx = @ + 1, ![i].action = "none",
                        ![i].workflow = 0, ![i].wstatus = "NONE",
                        ![i].cands = <<>>, ![i].answers = <<>>,
                        ![i].intent = "unasked", ![i].sent = 0]
  /\ UNCHANGED <<call, eng, now, ticks, polls, posted, sender, stamp, sweep, lock, cursor, wf, notifs, failCount>>

\* poll(): an exception leaves the try block of the drain loop.
ProcessRaises(i) ==
  /\ pc[i] = "route"
  /\ pc' = [pc EXCEPT ![i] = "fail_read"]
  /\ loc' = [loc EXCEPT ![i].action = "raised"]
  /\ UNCHANGED <<call, eng, now, ticks, polls, faults, posted, sender, stamp, sweep, lock, cursor, queue, wf,
                 notifs, doneCount, failCount>>

\* update_status(FAILED), the select of the current retry count; if it raises,
\* update_status logs and returns without writing.
FailRead(i, F) ==
  /\ pc[i] = "fail_read"
  /\ \E ok \in StoreOk(F) :
       /\ loc' = [loc EXCEPT ![i].current_retry = IF ok THEN queue[Cur(i)].retry_count ELSE @]
       /\ pc' = [pc EXCEPT ![i] = IF ok THEN "fail_write" ELSE "check_retry"]
       /\ faults' = Fault(ok)
  /\ UNCHANGED <<call, eng, now, ticks, polls, posted, sender, stamp, sweep, lock, cursor, queue, wf, notifs,
                 doneCount, failCount>>

\* update_status(FAILED), the update.
FailWrite(i) ==
  /\ pc[i] = "fail_write"
  /\ queue' = UpdateStatusFailed(queue, Cur(i), loc[i].current_retry)
  /\ failCount' = [failCount EXCEPT ![Cur(i)] = @ + 1]
  /\ pc' = [pc EXCEPT ![i] = "check_retry"]
  /\ UNCHANGED <<call, eng, now, ticks, polls, faults, posted, sender, stamp, sweep, lock, cursor, wf, loc,
                 notifs, doneCount>>

\* poll(): where the drain loop goes after a failed entry
AfterFailureAbort(i) == "release"

AfterFailure(i) == NextEntry(i)

\* poll(): get_retry_count and the retry-limit notification.  An exception
\* here would leave the except clause and the loop, through the finally clause.
CheckRetryNotifying(i, D) ==
  /\ pc[i] = "check_retry"
  /\ \E delivered \in D :
     LET note == IF queue[Cur(i)].retry_count >= MaxRetryAttempts
                   THEN NotifyAdmin(delivered) ELSE "none"
     IN
       /\ notifs' = IF note = "sent"
                      THEN [notifs EXCEPT !.message_retry_exceeded[Cur(i)] = @ + 1]
                      ELSE notifs
       /\ pc' = [pc EXCEPT ![i] = IF note = "raised" THEN "release" ELSE AfterFailure(i)]
       /\ loc' = [loc EXCEPT ![i].idx = @ + 1, ![i].action = "none", ![i].current_retry = 0,
                             ![i].result = IF note = "raised" THEN "raised" ELSE @,
                             ![i].unheard = IF note \in {"logged", "raised"} THEN @ + 1 ELSE @]
  /\ UNCHANGED <<call, eng, now, ticks, polls, faults, posted, sender, stamp, sweep, lock, cursor, queue, wf,
                 doneCount, failCount>>

CheckRetry(i) == CheckRetryNotifying(i, Heard)

\* poll() step 4: expire_old_messages; the result dictionary is built.
ExpireMessages(i) ==
  /\ pc[i] = "expire"
  /\ queue' = ExpireOldMessages(queue, now)
  /\ loc' = [loc EXCEPT ![i].result = "success"]
  /\ pc' = [pc EXCEPT ![i] = "release"]
  /\ UNCHANGED <<call, eng, now, ticks, polls, faults, posted, sender, stamp, sweep, lock, cursor, wf, notifs,
                 doneCount, failCount>>

\* PollerLock.__exit__: return False
ExitSuppresses == FALSE

\* What the caller of poll(), or of the with statement, gets to see.
Outcome(result) ==
  IF result = "raised" /\ ~ExitSuppresses THEN "raised"
  ELSE IF result = "yielded" THEN "yielded"
  ELSE "none"

\* poll(), finally clause, and PollerLock.__exit__: PollerLock.release deletes
\* the lock file, whoever wrote it; poll() returns, or the exception goes on
\* to the caller, and the process exits.
Release(i) ==
  /\ pc[i] = "release"
  /\ lock' = NoLock
  /\ pc' = [pc EXCEPT ![i] = "idle"]
  /\ loc' = [loc EXCEPT ![i] = [InitLoc EXCEPT !.result = Outcome(loc[i].result)]]
  /\ UNCHANGED <<call, eng, now, ticks, polls, faults, posted, sender, stamp, sweep, cursor, queue, wf,
                 notifs, doneCount, failCount>>

\* The body of a with statement runs, and may raise.
ScopedBody(i) ==
  /\ pc[i] = "body"
  /\ \E raised \in BOOLEAN :
       loc' = [loc EXCEPT ![i].result = IF raised THEN "raised" ELSE "success"]
  /\ pc' = [pc EXCEPT ![i] = "release"]
  /\ UNCHANGED <<call, eng, now, ticks, polls, faults, posted, sender, stamp, sweep, lock, cursor, queue, wf,
                 notifs, doneCount, failCount>>

\* An exception leaves the try statement of poll() without its finally clause.
RaiseTargetNoFinally(i) == "idle"

\* poll(): try ... finally
RaiseTarget(i) == "release"

\* An exception that no handler inside the cycle catches (one raised by the
\* ingest loop, a KeyboardInterrupt, a MemoryError) leaves the try statement
\* of poll().
BodyRaises(i) ==
  /\ pc[i] \in {"fetch", "ingest", "drain", "route", "create", "step", "handle",
                "mark", "fail_read", "fail_write", "check_retry", "expire"}
  /\ pc' = [pc EXCEPT ![i] = RaiseTarget(i)]
  /\ loc' = [loc EXCEPT ![i].result = "raised"]
  /\ UNCHANGED <<call, eng, now, ticks, polls, faults, posted, sender, stamp, sweep, lock, cursor, queue, wf,
                 notifs, doneCount, failCount>>

\* The process is killed (or the host goes down): nothing more runs, the lock
\* file stays.
Crash(i) ==
  /\ pc[i] \notin {"idle", "killed"}
  /\ pc' = [pc EXCEPT ![i] = "killed"]
  /\ loc' = [loc EXCEPT ![i] = InitLoc]
  /\ UNCHANGED <<call, eng, now, ticks, polls, faults, posted, sender, stamp, sweep, lock, cursor, queue, wf,
                 notifs, doneCount, failCount>>

\* The lock file is damaged from outside the program (a torn write, a wrong
\* writer, changed permissions).
Corrupt ==
  /\ lock.exists /\ lock.kind = "valid"
  /\ \E k \in CorruptKinds : lock' = [lock EXCEPT !.kind = k]
  /\ UNCHANGED <<call, eng, now, ticks, polls, faults, posted, sender, stamp, sweep, cursor, queue, wf, pc, loc,
                 notifs, doneCount, failCount>>

PollStep(i, F) ==
  \/ Acquire(i) \/ CreateLock(i) \/ Fetch(i) \/ Ingest(i, F) \/ GetPending(i, F)
  \/ BeginEntry(i, F) \/ RouteMessage(i) \/ CreateWf(i, F) \/ Step(i)
  \/ HandleOutputs(i) \/ MarkDone(i, F) \/ ProcessRaises(i) \/ FailRead(i, F)
  \/ FailWrite(i) \/ CheckRetry(i) \/ ExpireMessages(i) \/ Release(i)

\* Two process instances, started at any time (cron, overlapping runs), on a
\* store whose calls go through.
Next ==
  \/ Post
  \/ \E i \in Instances : Start(i, MaxPolls) \/ PollStep(i, Reliable)

Spec == Init /\ [][Next]_vars

\* One process instance, run again and again, while time passes and store
\* calls may fail.
NextSeq ==
  \/ Tick
  \/ Post
  \/ Start("A", MaxPollsSeq)
  \/ PollStep("A", Faulty)

SpecSeq == Init /\ [][NextSeq]_vars

\* One process instance, a few runs, store calls may fail, no time passes.
NextOne ==
  \/ Post
  \/ Start("A", MaxPolls)
  \/ PollStep("A", Faulty)

SpecOne == Init /\ [][NextOne]_vars

\* Two process instances on a chat without traffic, while time passes, the
\* lock file gets damaged and processes get killed.
NextLock ==
  \/ Tick
  \/ Corrupt
  \/ \E i \in Instances :
       \/ Start(i, MaxPollsSeq) \/ Acquire(i) \/ CreateLock(i) \/ Fetch(i)
       \/ GetPending(i, Reliable) \/ ExpireMessages(i) \/ Release(i)
       \/ Crash(i)

SpecLock == Init /\ [][NextLock]_vars

\* One process instance at a time, as a poll or as a with statement; the
\* process may be killed, and an exception may leave the cycle.
NextExit ==
  \/ Post
  \/ Start("A", MaxPolls)
  \/ StartScoped("A", MaxPolls)
  \/ PollStep("A", Faulty)
  \/ ScopedBody("A")
  \/ BodyRaises("A")
  \/ Crash("A")

SpecExit == Init /\ [][NextExit]_vars

\* The workflow tables the routing runs start from: rows of squad 34 that
\* earlier cycles have left active (start_workflow and the engine's steps),
\* the older in the lower slot, none of them resumed so far.
RouteTables ==
  { t \in [WfIds -> {NoWf} \cup
                    [status : {"WAITING_FOR_INPUT", "READY"}, squad_id : {34},
                     expires_at : {WorkflowExpirationHours * 60},
                     interaction_count : {0}, resumes : {0}]] :
      \A k \in WfIds : (k > 1 /\ t[k] # NoWf) => t[k - 1] # NoWf }

InitRoute ==
  /\ now = 0 /\ ticks = 0 /\ polls = 0 /\ faults = 0 /\ posted = 0
  /\ sender = [m \in MsgIds |-> 0]
  /\ stamp = [m \in MsgIds |-> 0]
  /\ sweep = NoSweep
  /\ eng = NoEng
  /\ call = NoCall
  /\ lock = NoLock
  /\ cursor = 0
  /\ queue = [m \in MsgIds |-> NoRow]
  /\ wf \in RouteTables
  /\ pc = [i \in Instances |-> "idle"]
  /\ loc = [i \in Instances |-> InitLoc]
  /\ notifs = [poller_timeout |-> 0, workflow_escalation |-> 0,
               message_retry_exceeded |-> [m \in MsgIds |-> 0]]
  /\ doneCount = [m \in MsgIds |-> 0]
  /\ failCount = [m \in MsgIds |-> 0]

\* The chat receives its messages before the first cycle starts.
PostAhead(cap) ==
  /\ polls = 0
  /\ PostAny(cap)

\* One instance over a reliable store, messages from members of both squads
\* and from outsiders, workflows already under way.
NextRoute ==
  \/ PostAhead(MaxMsgs)
  \/ Start("A", MaxPollsRoute)
  \/ PollStep("A", Reliable)

SpecRoute == InitRoute /\ [][NextRoute]_vars

\* The same with one message more, enough for a workflow to be resumed up to
\* the interaction limit and addressed once more.
NextEsc ==
  \/ PostAhead(MaxMsgsEsc)
  \/ Start("A", MaxPollsRoute)
  \/ PollStep("A", Reliable)

SpecEsc == InitRoute /\ [][NextEsc]_vars

\* MessageQueueManager.expire_old_messages run on its own: one update of the
\* rows selected, whose number is returned; a store error is swallowed and 0
\* is returned.
SweepMessages(F) ==
  /\ \E ok \in StoreOk(F) :
       /\ queue' = IF ok THEN ExpireOldMessages(queue, now) ELSE queue
       /\ sweep' = Swept("messages",
                       IF ok THEN Cardinality({m \in MsgIds : ExpiresMessage(queue[m], now)})
                             ELSE 0)
       /\ faults' = Fault(ok)
  /\ UNCHANGED <<call, eng, now, ticks, polls, posted, sender, stamp, lock, cursor, wf, pc, loc,
                 notifs, doneCount, failCount>>

\* ConversationStateManager.expire_old_workflows run on its own, likewise.
SweepWorkflows(F) ==
  /\ \E ok \in StoreOk(F) :
       /\ wf' = IF ok THEN ExpireOldWorkflows(wf, now) ELSE wf
       /\ sweep' = Swept("workflows",
                       IF ok THEN Cardinality({k \in WfIds : ExpiresWorkflow(wf[k], now)})
                             ELSE 0)
       /\ faults' = Fault(ok)
  /\ UNCHANGED <<call, eng, now, ticks, polls, posted, sender, stamp, lock, cursor, queue, pc, loc,
                 notifs, doneCount, failCount>>

\* Another operation on the stores between two sweeps: a cycle sets the
\* status of a queue entry it is processing, or an engine step that of its
\* workflow.
Touch ==
  /\ \/ /\ \E m \in MsgIds, st \in {"PROCESSING", "DONE"} :
              /\ queue[m].rows > 0
              /\ queue' = UpdateStatus(queue, m, st)
        /\ wf' = wf
     \/ /\ \E k \in WfIds, st \in {"WAITING_FOR_INPUT", "COMPLETED"} :
              /\ wf[k].status # "NONE"
              /\ wf' = [wf EXCEPT ![k].status = st]
        /\ queue' = queue
  /\ sweep' = [NoSweep EXCEPT !.last = "other"]
  /\ UNCHANGED <<call, eng, now, ticks, polls, faults, posted, sender, stamp, lock, cursor, pc, loc,
                 notifs, doneCount, failCount>>

\* The clock advances between two operations.
TickSweep ==
  /\ ticks < MaxTicks
  /\ \E d \in TickSteps : now' = now + d
  /\ ticks' = ticks + 1
  /\ sweep' = [NoSweep EXCEPT !.last = "tick"]
  /\ UNCHANGED <<call, eng, polls, faults, posted, sender, stamp, lock, cursor, queue, wf, pc, loc,
                 notifs, doneCount, failCount>>

\* The queue rows the sweep runs start from: entries inserted at minute 0 or 1
\* in every status the cycle gives an entry.
SweepRows ==
  {NoRow} \cup [rows : {1}, status : {"PENDING", "PROCESSING", "FAILED", "DONE", "EXPIRED"},
                retry_count : {0, 1}, error_message : {"none"}, created_at : {0, 1}]

\* The workflow rows the sweep runs start from: workflows created at minute 0
\* or 1 in every status.
SweepWorkflowRows ==
  {NoWf} \cup [status : ActiveStatuses \cup {"COMPLETED", "EXPIRED"}, squad_id : {34},
               expires_at : {WorkflowExpirationHours * 60, WorkflowExpirationHours * 60 + 1},
               interaction_count : {0}, resumes : {0}]

InitSweep ==
  /\ now = 0 /\ ticks = 0 /\ polls = 0 /\ faults = 0 /\ posted = 0
  /\ sender = [m \in MsgIds |-> 0]
  /\ stamp = [m \in MsgIds |-> 0]
  /\ sweep = NoSweep
  /\ eng = NoEng
  /\ call = NoCall
  /\ lock = NoLock
  /\ cursor = 0
  /\ \/ /\ queue \in [MsgIds -> SweepRows]
        /\ \A m \in MsgIds : m > MaxMsgs => queue[m] = NoRow
        /\ wf = [k \in WfIds |-> NoWf]
     \/ /\ queue = [m \in MsgIds |-> NoRow]
        /\ wf \in [WfIds -> SweepWorkflowRows]
  /\ pc = [i \in Instances |-> "idle"]
  /\ loc = [i \in Instances |-> InitLoc]
  /\ notifs = [poller_timeout |-> 0, workflow_escalation |-> 0,
               message_retry_exceeded |-> [m \in MsgIds |-> 0]]
  /\ doneCount = [m \in MsgIds |-> 0]
  /\ failCount = [m \in MsgIds |-> 0]

\* The sweeps run on their own over a reliable store, with the clock
\* advancing and other operations in between.
NextSweep ==
  \/ TickSweep
  \/ Touch
  \/ SweepMessages(Reliable)
  \/ SweepWorkflows(Reliable)

SpecSweep == InitSweep /\ [][NextSweep]_vars

\* The queue rows the notification runs start from: an entry not tried yet, or
\* one that has failed in all but the last of its attempts.
NotifyRows ==
  [rows : {1}, status : {"PENDING", "FAILED"}, retry_count : {0, MaxRetryAttempts - 1},
   error_message : {"none"}, created_at : {0}]

\* The messages 1..MaxMsgs have been posted and ingested by earlier cycles,
\* some of which failed on them and one of which may not have saved the cursor;
\* the lock file is absent, or it is the record of a process that was killed
\* at minute 0.
InitNotify ==
  /\ now = 0 /\ ticks = 0 /\ polls = 0 /\ faults = 0 /\ posted = MaxMsgs
  /\ sender = [m \in MsgIds |-> IF m <= MaxMsgs THEN Roster(m) ELSE 0]
  /\ stamp = [m \in MsgIds |-> IF m <= MaxMsgs THEN m ELSE 0]
  /\ sweep = NoSweep
  /\ eng = NoEng
  /\ call = NoCall
  /\ lock \in {NoLock, CreateLockRecord("B", 0)}
  /\ cursor \in {MaxMsgs - 1, MaxMsgs}
  /\ queue \in [MsgIds -> NotifyRows \cup {NoRow}]
  /\ \A m \in MsgIds : /\ (m <= MaxMsgs) = (queue[m] # NoRow)
                        /\ (queue[m].status = "FAILED") = (queue[m].retry_count > 0)
  /\ wf = [k \in WfIds |-> NoWf]
  /\ pc = [i \in Instances |-> "idle"]
  /\ loc = [i \in Instances |-> InitLoc]
  /\ notifs = [poller_timeout |-> 0, workflow_escalation |-> 0,
               message_retry_exceeded |-> [m \in MsgIds |-> 0]]
  /\ doneCount = [m \in MsgIds |-> 0]
  /\ failCount = [m \in MsgIds |-> queue[m].retry_count]

\* One process instance over queue entries close to the retry limit, after
\* time has passed, while the admin channel may fail.
TickAhead == polls = 0 /\ Tick

NextNotify ==
  \/ TickAhead
  \/ Start("A", MaxPollsRoute)
  \/ AcquireNotifying("A", Unreliable)
  \/ CreateLock("A") \/ Fetch("A") \/ Ingest("A", Reliable) \/ GetPending("A", Reliable)
  \/ BeginEntry("A", Reliable) \/ RouteMessage("A") \/ CreateWf("A", Reliable) \/ Step("A")
  \/ HandleOutputs("A") \/ MarkDone("A", Reliable) \/ ProcessRaises("A")
  \/ FailRead("A", Reliable) \/ FailWrite("A")
  \/ CheckRetryNotifying("A", Unreliable)
  \/ ExpireMessages("A") \/ Release("A")

SpecNotify == InitNotify /\ [][NextNotify]_vars

\* One instance over a store that may fail, messages that may share a second.
NextDrain ==
  \/ PostQuick
  \/ Start("A", MaxPolls)
  \/ PollStep("A", Faulty)

SpecDrain == Init /\ [][NextDrain]_vars

(* ------------------------------ properties ---------------------------- *)
\* Instance i is between a successful acquire() and its release().
InCycle(i) == pc[i] \notin {"idle", "killed", "acquire", "create_lock"}

\* Instance i is processing the entry Cur(i) of its snapshot.
Processing(i) ==
  pc[i] \in {"route", "create", "step", "handle", "mark", "fail_read",
             "fail_write", "check_retry"}

\* C1: at most one instance at a time is between a successful acquire() and
\* its own release().
C1_MutualExclusion ==
  \A i, j \in Instances : i # j => ~(InCycle(i) /\ InCycle(j))

\* C2: each message id is delivered at most once: no entry has more than one
\* processing attempt that ends DONE, an entry that is DONE is not handed to
\* the router again, and no two instances process the same entry.
C2_AtMostOnce ==
  /\ \A m \in MsgIds : doneCount[m] <= 1
  /\ \A i \in Instances : pc[i] = "route" => doneCount[Cur(i)] = 0
  /\ \A i, j \in Instances :
       i # j /\ Processing(i) /\ Processing(j) => Cur(i) # Cur(j)

\* C3: at most one active workflow per group among those without a squad, and
\* at most one per (group, squad) among the squad-scoped ones (the poller
\* serves one group; squad_id 0 stands for no squad).
C3_OneActivePerScope ==
  \A k1, k2 \in WfIds :
    (/\ k1 # k2
     /\ wf[k1].status \in ActiveStatuses
     /\ wf[k2].status \in ActiveStatuses) => wf[k1].squad_id # wf[k2].squad_id

\* C4: an instance that does not hold the lock mutates no queue row and no
\* workflow row.
C4_MutationUnderLock ==
  [][\A i \in Instances :
       (pc'[i] # pc[i] /\ ~InCycle(i)) => (wf' = wf /\ queue' = queue)]_vars

\* C5: the stored retry_count of an entry equals the number of FAILED
\* transitions update_status has written for it.
C5_RetryCountExact ==
  \A m \in MsgIds : queue[m].retry_count = failCount[m]

\* C6: per queue entry, at most one message_retry_exceeded notification is
\* sent over all poll cycles.
C6_OneEscalation ==
  \A m \in MsgIds : notifs.message_retry_exceeded[m] <= 1

\* C7: a FAILED entry whose retry_count exceeds the ceiling is never moved to
\* PROCESSING again; only the expiry sweep changes its status.
C7_NoRetryPastCeiling ==
  [][\A m \in MsgIds :
       (queue[m].status = "FAILED" /\ queue[m].retry_count > MaxRetryAttempts)
         => queue'[m].status \in {"FAILED", "EXPIRED"}]_vars

\* C8: when the processing of an entry ended in the error outcome, the entry
\* leaves the attempt FAILED, with retry_count incremented and error_message
\* set.
C8_FailureMarksFailed ==
  [][\A i \in Instances :
       (pc[i] = "mark" /\ loc[i].action = "error" /\ pc'[i] # pc[i]) =>
         LET m == Cur(i) IN
           /\ queue'[m].status = "FAILED"
           /\ queue'[m].retry_count = queue[m].retry_count + 1
           /\ queue'[m].error_message = "err"]_vars

\* C9: the drain never aborts: the expiry step is reached only with every
\* entry of the snapshot attempted, and poll() comes to its release with a
\* result (after a failed fetch, or after the whole drain and the expiry).
C9_DrainNeverAborts ==
  \A i \in Instances :
    /\ pc[i] = "expire" => loc[i].idx = Len(loc[i].pending_messages)
    /\ pc[i] = "release" =>
         /\ loc[i].result \in {"fetch_failed", "success"}
         /\ loc[i].result = "success" => loc[i].idx = Len(loc[i].pending_messages)

\* A cycle whose first entry failed and whose second entry was still
\* processed has reached the expiry step.
C9_Witness ==
  \E i \in Instances :
    /\ pc[i] = "expire"
    /\ Len(loc[i].pending_messages) >= 2
    /\ queue[loc[i].pending_messages[1]].status = "FAILED"
    /\ queue[loc[i].pending_messages[2]].status = "DONE"

C12_OneEventPerReclaim ==
  /\ [](lock.alerts <= 1)
  /\ [][\A i \in Instances :
          (/\ pc[i] = "acquire"
           /\ lock.exists /\ lock.kind = "valid"
           /\ now - lock.started_at > PollerTimeoutMinutes
           /\ pc'[i] \notin {"acquire", "killed"}) =>
            (pc'[i] = "create_lock" /\ notifs'.poller_timeout = notifs.poller_timeout + 1)]_vars

\* C13: acquire() on a valid lock record whose age does not exceed the
\* timeout returns False (the cycle yields), leaves the record unchanged and
\* sends no notification.
C13_FreshLockYields ==
  [][\A i \in Instances :
       (/\ pc[i] = "acquire"
        /\ lock.exists /\ lock.kind = "valid"
        /\ now - lock.started_at <= PollerTimeoutMinutes
        /\ pc'[i] \notin {"acquire", "killed"}) =>
         (/\ pc'[i] = "idle"
          /\ loc'[i].result = "yielded"
          /\ lock' = lock
          /\ notifs' = notifs)]_vars

\* An instance has yielded to a record that is exactly as old as the timeout
\* and written by another instance.
C13_Witness ==
  \E i \in Instances :
    /\ pc[i] = "idle" /\ loc[i].result = "yielded"
    /\ lock.exists /\ lock.holder # i
    /\ now - lock.started_at = PollerTimeoutMinutes

C15_CorruptLockAsAbsent ==
  [][\A i \in Instances :
       (/\ pc[i] = "acquire"
        /\ lock.exists /\ lock.kind \in CorruptKinds
        /\ pc'[i] \notin {"acquire", "killed"}) =>
         (/\ pc'[i] = "create_lock"
          /\ loc'[i].result # "raised"
          /\ notifs' = notifs)]_vars

\* C16: when acquire() returns False the cycle is over at once: nothing is
\* fetched, no queue row, workflow row, cursor or notification changes, and
\* the lock record stays.
C16_YieldHasNoEffect ==
  [][\A i \in Instances :
       (/\ pc[i] = "acquire"
        /\ AcquireOutcome(lock, now) = "yield"
        /\ pc'[i] \notin {"acquire", "killed"}) =>
         (/\ pc'[i] = "idle"
          /\ loc'[i].new_messages = <<>>
          /\ UNCHANGED <<queue, wf, cursor, lock, notifs>>)]_vars

\* A cycle has yielded while messages wait in the chat and a row waits in the
\* queue; the lock record is still there.
C16_Witness ==
  \E i \in Instances :
    /\ pc[i] = "idle" /\ loc[i].result = "yielded"
    /\ lock.exists
    /\ posted > cursor
    /\ \E m \in MsgIds : queue[m].status \in {"PENDING", "FAILED"}

\* The relatedness classifier's answer that route_message accepts.
Accepted(a) == a.related /\ a.confidence >= RelatedThreshold

\* C17: squads do not block each other.  When route_message has decided on the
\* message of an authorized sender whose squad had no active workflow, it has
\* not rejected the message, has ignored it only if the intent classifier
\* called it not actionable, and has resumed no workflow of another squad.
C17_SquadsDoNotBlock ==
  \A i \in Instances :
    ( /\ pc[i] \in {"create", "step", "mark"}
      /\ loc[i].action # "none"
      /\ IsAuthorized(Sender(Cur(i)))
      /\ loc[i].cands = <<>> )
    => /\ loc[i].action # "rejected"
       /\ loc[i].action = "ignored" => loc[i].intent = "other"
       /\ loc[i].action = "resumed_workflow"
            => wf[loc[i].workflow].squad_id = Sender(Cur(i))

\* C18: a workflow waiting for input that related messages have resumed as
\* often as the interaction limit allows is not resumed by the next one.
C18_EscalatedAtLimit ==
  [][\A w \in WfIds :
       (wf[w].status = "WAITING_FOR_INPUT" /\ wf[w].resumes >= WorkflowInteractionLimit)
       => wf'[w].resumes = wf[w].resumes]_vars

\* The entry instance i is routing has been decided by the loop over the
\* squad's workflows: the last candidate asked about was accepted.
ByRelatedness(l) ==
  l.answers # <<>> /\ Accepted(l.answers[Len(l.answers)])

\* C19: route_message takes the active workflows of the sender's squad newest
\* first, asks the relatedness classifier about them in that order and acts on
\* the first one accepted (related, confidence >= 50): no candidate after it
\* is asked about, every candidate before it was not accepted, and the check
\* changes no workflow but the accepted one; without an accepted candidate it
\* changes none.
C19_Structure ==
  \A i \in Instances :
    LET c == loc[i].cands
        a == loc[i].answers
    IN  /\ Len(a) <= Len(c)
        /\ \A k \in 1..Len(c) : \A j \in 1..Len(c) : k < j => c[k] > c[j]
        /\ \A k \in 1..Len(a) : k < Len(a) => ~Accepted(a[k])
        /\ (a # <<>> /\ ~Accepted(a[Len(a)])) => Len(a) = Len(c)
        /\ (pc[i] \in {"step", "handle", "mark"} /\ ByRelatedness(loc[i]))
             => /\ loc[i].workflow = c[Len(a)]
                /\ loc[i].action \in {"resumed_workflow", "escalated_to_admin", "error"}

C19_Step ==
  \A i \in Instances :
    /\ (pc[i] = "route" /\ pc'[i] \in {"create", "step", "mark"})
         => /\ Range(loc'[i].cands) =
                 {w \in WfIds : /\ wf[w].status \in ActiveStatuses
                                /\ wf[w].squad_id = Sender(Cur(i))
                                /\ IsAuthorized(Sender(Cur(i)))}
            /\ \A w \in WfIds :
                 wf'[w] # wf[w] => (ByRelatedness(loc'[i]) /\ w = loc'[i].workflow)
    /\ (pc[i] = "step" /\ ByRelatedness(loc[i]))
         => \A w \in WfIds : wf'[w] # wf[w] => w = loc[i].workflow

C20_UnauthorizedIgnored ==
  [][\A i \in Instances :
       ( /\ pc[i] = "route"
         /\ Sender(Cur(i)) = 0
         /\ pc'[i] # "route"
         /\ loc'[i].action # "raised" )
       => /\ pc'[i] = "mark"
          /\ loc'[i].action = "ignored"
          /\ loc'[i].workflow = 0
          /\ loc'[i].answers = <<>>
          /\ loc'[i].intent = "unasked"
          /\ loc'[i].sent = 0
          /\ wf' = wf
          /\ notifs' = notifs]_vars

\* An outsider's message has been routed while a workflow was active.
C20_Witness ==
  /\ pc["A"] = "mark"
  /\ Sender(Cur("A")) = 0
  /\ loc["A"].action = "ignored"
  /\ \E w \in WfIds : wf[w].status = "WAITING_FOR_INPUT"

\* The rows a drain has to take up: those with status PENDING or FAILED.
PendingRows == {m \in MsgIds : queue[m].rows > 0 /\ queue[m].status \in {"PENDING", "FAILED"}}

\* The list read for the drain holds each row of PendingRows once, in
\* non-descending timestamp order.
ReadsAllInOrder(p) ==
  /\ Range(p) = PendingRows
  /\ Len(p) = Cardinality(PendingRows)
  /\ \A k \in 1..(Len(p) - 1) : stamp[p[k]] <= stamp[p[k + 1]]

\* The drain works through the list it has read: the list stays as read, the
\* position advances by one entry at a time, and the entry taken up for the
\* router is the one at the position.
DrainsInListOrder(i) ==
  (pc[i] \in {"drain"} \cup {"route", "create", "step", "handle", "mark", "fail_read",
                              "fail_write", "check_retry"}
   /\ pc'[i] \notin {"release", "killed"})
  => /\ loc'[i].pending_messages = loc[i].pending_messages
     /\ loc'[i].idx \in {loc[i].idx, loc[i].idx + 1}
     /\ loc'[i].idx < Len(loc[i].pending_messages) \/ pc'[i] = "expire"
     /\ pc[i] = "drain" => \A m \in MsgIds : queue'[m] # queue[m] => m = Cur(i)

GroupBusy ==
  \E k \in WfIds :
    /\ wf[k].status \in ActiveStatuses \ {"WAITING_FOR_INPUT"}
    /\ \A j \in WfIds : wf[j].status \in ActiveStatuses => j <= k

WorkflowSweepRuns == sweep'.last = "workflows" /\ sweep'.runs >= 1 /\ now' = now
QueueSweepRuns == sweep'.last = "messages" /\ sweep'.runs >= 1 /\ now' = now

MaxActions == 2

pollVars == <<now, ticks, polls, faults, posted, sender, stamp, sweep, lock, cursor, queue, wf,
              pc, loc, notifs, doneCount, failCount, call>>

SystemPrompt == MsgObject("SystemMessage", "prompt", <<>>, "", "")

\* extract_parameters_node: the system prompt goes in front of the messages
\* unless one is there.
WithSystemPrompt(ms) ==
  IF \E k \in 1..Len(ms) : ms[k].type = "SystemMessage" THEN ms ELSE <<SystemPrompt>> \o ms

\* extract_parameters_node, new_messages: the model's response and, when it
\* called tools, the tool results, the prompt for the analysis and the final
\* response.
NewMessages(tools) ==
  IF tools
    THEN << MsgObject("AIMessage", "", <<"get_schedule">>, "", "response_metadata"),
            MsgObject("ToolMessage", "schedule", <<>>, "call_1", "name"),
            MsgObject("HumanMessage", "tool prompt", <<>>, "", ""),
            MsgObject("AIMessage", "analysis", <<>>, "", "response_metadata") >>
    ELSE << MsgObject("AIMessage", "analysis", <<>>, "", "response_metadata") >>

\* ShiftWorkflowState.messages, Annotated[list, operator.add]: what a node
\* returns as messages is added to the messages the graph holds.
AddMessages(channel, returned) == channel \o returned

FourParams == <<"squad", "date", "shift_start", "shift_end">>

AllOk == [squad |-> "ok", date |-> "ok", shift_start |-> "ok", shift_end |-> "ok"]

\* The parameters of the first request of an analysis.
FieldCases ==
  { AllOk,
    [AllOk EXCEPT !.squad = "bad"],
    [AllOk EXCEPT !.date = "mistyped"],
    [AllOk EXCEPT !.shift_end = "none"],
    [AllOk EXCEPT !.date = "bad", !.shift_start = "bad"] }

\* The missing_parameters of an analysis.
MissingCases == {<<>>, <<"shift_end">>, <<"shift_end", "date">>, <<"notes">>}

\* What one run of extract_parameters_node gets from the model: an exception
\* ("raised"), a reply without a JSON object ("unparseable"), or an analysis
\* with n requests, the first request's parameters and action, the missing
\* parameters, warnings or none, and whether the requests after the first
\* make valid commands (rest_ok); tools says whether the model called tools.
\* The analyses are those of no request (with and without warnings, and with
\* a parameter reported missing), of one request (complete; without an
\* action; failing one or two validation rules; lacking the end time, with
\* each list of missing parameters) and of several complete requests.
Outcomes ==
  { o \in [kind : {"raised", "unparseable", "parsed"}, n : 0..MaxActions,
           fields : FieldCases \cup {NoFields}, action : {"none", "noCrew"},
           missing : MissingCases, warnings : BOOLEAN, tools : BOOLEAN, rest_ok : BOOLEAN] :
      /\ o.kind # "parsed" => o.n = 0 /\ o.missing = <<>> /\ ~o.warnings
      /\ o.n = 0 => o.fields = NoFields /\ o.action = "none"
      /\ o.n > 0 => o.fields \in FieldCases
      /\ o.n <= 1 => o.rest_ok
      /\ o.n >= 2 => o.fields = AllOk /\ o.action = "noCrew"
      /\ o.warnings => o.n = 0 /\ o.missing = <<>>
      /\ o.tools => o.n = 1 /\ o.fields = AllOk /\ o.action = "noCrew" /\ o.missing = <<>>
      /\ o.fields \notin {AllOk, NoFields} => o.action = "noCrew"
      /\ o.missing # <<>> => \/ o.n = 0 /\ o.missing = <<"shift_end">>
                             \/ o.n = 1 /\ o.fields.shift_end = "none" }

LlmWarning == [rule |-> "llm", param |-> "schedule"]
Reasoning == [rule |-> "reasoning", param |-> "schedule"]

\* extract_parameters_node.
ExtractParametersNode(st, o) ==
  CASE o.kind = "raised" ->
         [st EXCEPT !.missing_parameters = FourParams,
                    !.messages = AddMessages(@, WithSystemPrompt(@))]
    [] o.kind = "unparseable" ->
         [st EXCEPT !.missing_parameters = FourParams,
                    !.messages = AddMessages(@, NewMessages(o.tools)),
                    !.current_step = "extract_parameters"]
    [] OTHER ->
         [st EXCEPT !.parsed_requests = o.n,
                    !.rest_ok = o.rest_ok,
                    !.fields = IF o.n > 0 THEN o.fields ELSE @,
                    !.action = IF o.n > 0 THEN o.action ELSE @,
                    !.missing_parameters = o.missing,
                    !.validation_warnings = IF o.warnings THEN {LlmWarning} ELSE {},
                    !.messages = AddMessages(@, NewMessages(o.tools)),
                    !.current_step = "extract_parameters"]

\* request_clarification_node.
RequestClarificationNode(st) ==
  IF st.missing_parameters = <<>> THEN [st EXCEPT !.messages = AddMessages(@, @)]
  ELSE [st EXCEPT !.clarification_question = ParamToAsk(st.missing_parameters),
                  !.current_step = "request_clarification",
                  !.messages = AddMessages(@, @)]

\* validate_parameters_node: len() of a date that is no string raises.
ValidateRaises(st) == st.fields.date = "mistyped"

\* validate_parameters_node.
ValidateParametersNode(st) ==
  [st EXCEPT !.action = IF @ = "none" THEN "noCrew" ELSE @,
             !.validation_warnings = FailedRules(st.fields),
             !.validation_passed = (FailedRules(st.fields) = {}),
             !.current_step = "validate",
             !.messages = AddMessages(@, @)]

\* execute_command_node: a CalendarCommand is built from every request, with
\* the action the request holds; a request that makes no valid command leaves
\* an execution_result of status "error".
ExecuteCommandNode(st, o) ==
  IF o.action # "none" /\ o.rest_ok
    THEN [st EXCEPT !.execution_result = [NoExec EXCEPT !.status = "prepared",
                                                         !.commands = st.parsed_requests],
                    !.current_step = "execute",
                    !.messages = AddMessages(@, @)]
    ELSE [st EXCEPT !.execution_result = [NoExec EXCEPT !.status = "error"],
                    !.messages = AddMessages(@, @)]

\* complete_no_action_node.
CompleteNoActionNode(st) ==
  [st EXCEPT !.validation_warnings = IF @ # {} THEN @ ELSE {Reasoning},
             !.execution_result = [NoExec EXCEPT !.status = "no_action_needed"],
             !.current_step = "complete_no_action",
             !.messages = AddMessages(@, @)]

\* create_shift_workflow: the graph, from extract_parameters to END.
RunGraph(st, o) ==
  LET a == ExtractParametersNode(st, o)
      r == RouteAfterExtraction(a)
  IN  IF r = "complete_no_action" THEN CompleteNoActionNode(a)
      ELSE IF r = "clarify" THEN RequestClarificationNode(a)
      ELSE LET v == ValidateParametersNode(a)
           IN  IF v.validation_passed THEN ExecuteCommandNode(v, o) ELSE v

GraphRaises(st, o) ==
  LET a == ExtractParametersNode(st, o)
  IN  RouteAfterExtraction(a) = "validate" /\ ValidateRaises(a)

\* resume_workflow: the messages the step starts from, the last system
\* message and the first human message with the answer appended.
\* A content that starts with the request keeps it; one that does not (the
\* answer a dialogue was started from) never gets it.
AnsweredContent(c) ==
  IF c = "request" THEN "request; answer"
  ELSE IF c \in {"request; answer", "request; answers"} THEN "request; answers"
  ELSE "answers"

ResumedMessages(ms) ==
  IF ms = <<>> THEN <<MsgObject("HumanMessage", "answer", <<>>, "", "")>>
  ELSE LET sys == {k \in 1..Len(ms) : ms[k].type = "SystemMessage"}
           hum == {k \in 1..Len(ms) : ms[k].type = "HumanMessage"}
           s   == IF sys = {} THEN <<>>
                  ELSE <<ms[CHOOSE k \in sys : \A j \in sys : j <= k]>>
           h   == IF hum = {} THEN "answer"
                  ELSE AnsweredContent(ms[CHOOSE k \in hum : \A j \in hum : k <= j].content)
       IN  s \o <<MsgObject("HumanMessage", h, <<>>, "", "")>>

\* _update_workflow_from_state: the status it writes for a result state.
StatusFromState(status, st) ==
  NewStatus(status, [current_step |-> st.current_step,
                     validation_passed |-> st.validation_passed,
                     exec |-> st.execution_result.status])

\* start_workflow up to the step: the row is created with status NEW and the
\* initial state, whose messages are then set to the request.
StartWorkflow ==
  /\ eng.pc = "idle"
  /\ eng' = [eng EXCEPT !.pc = "invoke", !.status = "NEW",
                         !.row = [InitialState EXCEPT !.messages = <<>>],
                         !.state = InitialState, !.before = "NEW", !.trail = <<"NEW">>]
  /\ UNCHANGED pollVars

\* resume_workflow up to the step: the stored state is deserialized and its
\* messages rebuilt around the answer; every other key is what the last
\* stored step left.
ResumeWorkflow ==
  /\ eng.pc \in {"done", "error"}
  /\ eng.status \in ActiveStatuses
  /\ LET st == DeserializeState(eng.row)
     IN  eng' = [eng EXCEPT !.pc = "invoke",
                            !.state = [st EXCEPT !.messages = ResumedMessages(@)],
                            !.before = eng.status, !.outcome = "none", !.trail = <<>>,
                            !.out = NoOut, !.left = 0, !.successful = 0, !.failed = 0]
  /\ UNCHANGED pollVars

\* _execute_workflow_step: workflow_graph.invoke; an exception of the graph
\* is raised again.
ExecuteWorkflowStep ==
  /\ eng.pc = "invoke"
  /\ \E o \in Outcomes :
       eng' = IF GraphRaises(eng.state, o)
                THEN [eng EXCEPT !.pc = "raised", !.outcome = o.kind]
                ELSE [eng EXCEPT !.pc = "update", !.outcome = o.kind,
                                 !.state = RunGraph(eng.state, o)]
  /\ UNCHANGED pollVars

\* serialize_state and _update_workflow_from_state: the status and the
\* serialized state are written; a failed write raises.
UpdateWorkflowFromState(F) ==
  /\ eng.pc = "update"
  /\ \E ok \in F :
       eng' = IF ok
                THEN [eng EXCEPT !.pc = "outputs",
                                 !.status = StatusFromState(eng.status, eng.state),
                                 !.row = SerializeState(eng.state),
                                 !.trail = Append(@, StatusFromState(eng.status, eng.state))]
                ELSE [eng EXCEPT !.pc = "raised"]
  /\ UNCHANGED pollVars

\* _handle_workflow_outputs, the messages: the clarification question if the
\* state holds one, and every validation warning; then on to the commands of
\* a prepared execution_result.
HandleWorkflowOutputs ==
  /\ eng.pc = "outputs"
  /\ LET st == eng.state
         q  == st.clarification_question # "none"
         go == st.execution_result.status = "prepared" /\ st.execution_result.commands > 0
     IN  eng' = [eng EXCEPT !.pc = IF go THEN "commands" ELSE "done",
                            !.out.questions = IF q THEN @ + 1 ELSE @,
                            !.out.asked = IF q THEN st.clarification_question ELSE @,
                            !.out.warnings = st.validation_warnings,
                            !.left = IF go THEN st.execution_result.commands ELSE 0]
  /\ UNCHANGED pollVars

\* _handle_workflow_outputs, the loop over the commands: the next command is
\* sent to the calendar service, which accepts it or fails.
SendCommand ==
  /\ eng.pc = "commands"
  /\ eng.left > 0
  /\ \E ok \in BOOLEAN :
       eng' = [eng EXCEPT !.left = @ - 1,
                          !.out.submitted = @ + 1,
                          !.successful = IF ok THEN @ + 1 ELSE @,
                          !.failed = IF ok THEN @ ELSE @ + 1]
  /\ UNCHANGED pollVars

\* _handle_workflow_outputs after the loop: the results go into the state,
\* the workflow is written COMPLETED with it (a failed write raises), and a
\* confirmation and an error message are sent (a failed send raises).
CompleteExecution(F) ==
  /\ eng.pc = "commands"
  /\ eng.left = 0
  /\ LET total == eng.state.execution_result.commands
         st    == [eng.state EXCEPT !.execution_result =
                     [status |-> AggregateStatus(eng.failed, total), commands |-> total,
                      successful |-> eng.successful, failed |-> eng.failed]]
     IN  \E ok \in F, sent \in BOOLEAN, sentError \in BOOLEAN :
           eng' = IF ~ok THEN [eng EXCEPT !.pc = "raised", !.state = st]
                  ELSE LET c == eng.successful > 0
                           e == eng.failed > 0 /\ (c => sent)
                       IN  [eng EXCEPT
                              !.pc = IF (c /\ ~sent) \/ (e /\ ~sentError) THEN "raised" ELSE "done",
                              !.state = st, !.status = "COMPLETED",
                              !.row = SerializeState(st),
                              !.trail = Append(@, "COMPLETED"),
                              !.out.confirmations = IF c /\ sent THEN @ + 1 ELSE @,
                              !.out.errors = IF e /\ sentError THEN @ + 1 ELSE @]
  /\ UNCHANGED pollVars

\* route_message around start_workflow and resume_workflow: an exception is
\* logged and the outcome is "error"; nothing is sent to the chat.
RouteMessageCatches ==
  /\ eng.pc = "raised"
  /\ eng' = [eng EXCEPT !.pc = "error"]
  /\ UNCHANGED pollVars

NextEngine ==
  \/ StartWorkflow
  \/ RouteMessageCatches
  \/ ResumeWorkflow
  \/ ExecuteWorkflowStep
  \/ UpdateWorkflowFromState(Faulty)
  \/ HandleWorkflowOutputs
  \/ SendCommand
  \/ CompleteExecution(Faulty)

SpecEngine == Init /\ [][NextEngine]_vars

(* --------------------------- the engine's claims ----------------------- *)

\* The first step of a workflow has returned, having extracted one complete
\* valid action whose submission the calendar service accepted.
FirstStepSubmittedOne ==
  /\ eng.pc = "done"
  /\ eng.trail # <<>> /\ eng.trail[1] = "NEW"
  /\ eng.outcome = "parsed"
  /\ eng.state.parsed_requests = 1
  /\ eng.state.fields = AllOk
  /\ eng.state.missing_parameters = <<>>
  /\ eng.out.submitted = 1 /\ eng.successful = 1

\* C22: a request whose first engine step extracts one complete valid action
\* and whose submission succeeds has its workflow created NEW, taken through
\* READY and then EXECUTING to COMPLETED, with exactly one confirmation
\* message sent to the chat.
C22_NewReadyExecutingCompleted ==
  FirstStepSubmittedOne =>
    /\ eng.trail = <<"NEW", "READY", "EXECUTING", "COMPLETED">>
    /\ eng.status = "COMPLETED"
    /\ eng.out.confirmations = 1

\* A step on a NEW or WAITING_FOR_INPUT workflow has returned, and its
\* result reports missing parameters.
StepReportedMissing ==
  /\ eng.pc = "done"
  /\ eng.before \in {"NEW", "WAITING_FOR_INPUT"}
  /\ eng.state.missing_parameters # <<>>

\* C23: whenever a step on a NEW or WAITING_FOR_INPUT workflow reports a
\* non-empty list of missing parameters, the workflow is WAITING_FOR_INPUT
\* after the step and exactly one clarification question has been sent, for
\* one of the reported parameters (the end time when only shift_end is
\* missing).
C23_MissingAsksOnce ==
  StepReportedMissing =>
    /\ eng.status = "WAITING_FOR_INPUT"
    /\ eng.out.questions = 1
    /\ eng.out.asked \in Range(eng.state.missing_parameters)
    /\ (eng.state.missing_parameters = <<"shift_end">> => eng.out.asked = "shift_end")

\* A step on a NEW workflow has returned.
StepOnNewReturned == eng.pc = "done" /\ eng.before = "NEW"

\* C24: a step on a NEW workflow whose analysis holds no request completes
\* the workflow as a no-op, with no command submitted and no clarification
\* question sent; a step whose extraction failed (the model raised, or its
\* reply could not be parsed) is not handled as one without requests.
C24_NoActionCompletes ==
  StepOnNewReturned =>
    /\ (eng.outcome = "parsed" /\ eng.state.parsed_requests = 0) =>
          /\ eng.status = "COMPLETED"
          /\ eng.state.execution_result.status = "no_action_needed"
          /\ eng.out.submitted = 0
          /\ eng.out.questions = 0
    /\ eng.outcome \in {"raised", "unparseable"} =>
          /\ eng.state.current_step # "complete_no_action"
          /\ eng.status # "COMPLETED"

\* A step has returned whose validation failed.
StepFailedValidation ==
  /\ eng.pc = "done"
  /\ eng.outcome = "parsed"
  /\ eng.state.current_step = "validate"
  /\ ~eng.state.validation_passed

\* C25: when validation fails in a step, the workflow does not enter
\* EXECUTING and no command is submitted, the step writes no status but the
\* one the workflow had, one warning per failed rule is recorded and sent, and
\* the extracted fields and the request list are in the stored state.
C25_FailedValidationBlocks ==
  StepFailedValidation =>
    /\ eng.status = eng.before
    /\ Range(eng.trail) \subseteq {eng.before}
    /\ eng.out.submitted = 0
    /\ eng.state.validation_warnings = FailedRules(eng.state.fields)
    /\ eng.out.warnings = FailedRules(eng.state.fields)
    /\ FailedRules(eng.state.fields) # {}
    /\ eng.row.fields = eng.state.fields
    /\ eng.row.action = eng.state.action
    /\ eng.row.parsed_requests = eng.state.parsed_requests
    /\ eng.row.validation_warnings = FailedRules(eng.state.fields)

\* The commands of a step have been run and their results stored.
ExecutionStored ==
  /\ eng.pc \in {"done", "raised"}
  /\ eng.status = "COMPLETED"
  /\ eng.out.submitted > 0

\* C26: after the run of a list of N >= 1 commands every command has been
\* attempted, whatever failed before it, and the stored result tells the three
\* aggregate results apart: none failed, some but not all failed, and all N
\* failed are three different outcomes.
C26_ThreeOutcomes ==
  ExecutionStored =>
    LET r == eng.row.execution_result
    IN  /\ eng.out.submitted = r.commands
        /\ eng.successful + eng.failed = r.commands
        /\ r.successful = eng.successful /\ r.failed = eng.failed
        /\ eng.failed = 0 => r.status = "success"
        /\ (0 < eng.failed /\ eng.failed < r.commands) => r.status = "partial"
        /\ eng.failed = r.commands => r.status \notin {"success", "partial"}

\* Two messages are of the same kind and hold the same content and tool-call
\* data.
SameMessage(a, b) ==
  /\ a.form = b.form
  /\ a.type = b.type
  /\ a.content = b.content
  /\ a.additional_kwargs = b.additional_kwargs
  /\ a.tool_calls = b.tool_calls
  /\ a.tool_call_id = b.tool_call_id

\* Two states hold the same value under every key but messages, and
\* message for message the same dialogue.
EquivalentState(a, b) ==
  /\ [a EXCEPT !.messages = <<>>] = [b EXCEPT !.messages = <<>>]
  /\ Len(a.messages) = Len(b.messages)
  /\ \A k \in 1..Len(a.messages) : SameMessage(a.messages[k], b.messages[k])

\* C30: for every state the engine holds, deserialize_state(serialize_state(s))
\* is equivalent to s: the request list, the warnings, the interaction
\* counter and every other key are unchanged, and each message keeps its
\* kind, its content and its tool-call data.
C30_RoundTrip ==
  EquivalentState(DeserializeState(SerializeState(eng.state)), eng.state)

\* A state with requests, warnings and a dialogue of all four kinds of message,
\* one of them resumed from the store, which the round trip does not leave
\* identical.
C30_Witness ==
  /\ eng.pc = "update"
  /\ eng.before = "WAITING_FOR_INPUT"
  /\ eng.state.parsed_requests > 0
  /\ eng.state.execution_result.status = "prepared"
  /\ {eng.state.messages[k].type : k \in 1..Len(eng.state.messages)} = MessageClasses
  /\ \E k \in 1..Len(eng.state.messages) : eng.state.messages[k].tool_calls # <<>>
  /\ DeserializeState(SerializeState(eng.state)) # eng.state

\* resume_workflow has rebuilt the dialogue and the step has not run yet.
Resumed == eng.pc = "invoke" /\ eng.trail = <<>>

\* C31: on every resume the dialogue the step starts from holds no AI and no
\* tool message: it is the stored system message, if there is one, followed
\* by one human turn that holds the first user turn of the workflow and the
\* answer just given, after any number of resumes.
C31_DialogueRebuilt ==
  Resumed =>
    LET ms  == eng.state.messages
        sys == \E k \in 1..Len(eng.row.messages) : eng.row.messages[k].type = "SystemMessage"
    IN  /\ Len(ms) = IF sys THEN 2 ELSE 1
        /\ sys => ms[1].type = "SystemMessage"
        /\ ms[Len(ms)].type = "HumanMessage"
        /\ ms[Len(ms)].content \in {"request; answer", "request; answers"}

\* The chat messages a call of start_workflow or resume_workflow has sent.
ChatMessages(out) ==
  out.questions + Cardinality(out.warnings) + out.confirmations + out.errors

\* C32: whenever starting or resuming a workflow has failed with an exception
\* (of the step, of the write of its result or of an output), a failure
\* notice has been sent to the chat: the user is not left without a message.
C32_FailureNoticeSent ==
  eng.pc = "error" => ChatMessages(eng.out) >= 1

MaxCalls == 2

\* The only call site passes no max_retries, so every call runs with the
\* default of the signature.
DefaultMaxRetries == 3

\* What one send_command can do: return the service's response, or raise one
\* of the requests.RequestException kinds after logging it.
RequestExceptions == {"Timeout", "ConnectionError", "HTTPError"}

SendCommandOutcomes == {"ok"} \cup RequestExceptions

\* The response of the service to the request made at attempt k.
Response(k) == [status |-> "success", attempt |-> k]

\* The loop body as one that goes on after a successful attempt.
AfterAttemptUnstopped(outcome, attempt, max_retries) ==
  IF attempt < max_retries - 1 THEN "continue"
  ELSE IF outcome = "ok" THEN "return" ELSE "raise"

\* The loop body: a response is returned at once, a RequestException is
\* kept as last_error and the loop goes on unless this was the last attempt.
AfterAttempt(outcome, attempt, max_retries) ==
  IF outcome = "ok" THEN "return"
  ELSE IF attempt < max_retries - 1 THEN "continue" ELSE "raise"

\* send_command_with_retry is called: last_error = None, the loop starts.
SendCommandWithRetry ==
  /\ call.pc \in {"idle", "returned", "raised"}
  /\ call.calls < MaxCalls
  /\ call' = [call EXCEPT !.pc = "loop", !.calls = @ + 1,
                          !.max_retries = DefaultMaxRetries, !.attempt = 0,
                          !.last_error = "None", !.log = <<>>,
                          !.result = "none", !.raised = "none"]
  /\ UNCHANGED <<eng, now, ticks, polls, faults, posted, sender, stamp, sweep, lock, cursor,
                 queue, wf, pc, loc, notifs, doneCount, failCount>>

\* One iteration of for attempt in range(max_retries): one request.
Attempt ==
  /\ call.pc = "loop"
  /\ call.attempt < call.max_retries
  /\ \E outcome \in SendCommandOutcomes :
       LET after == AfterAttempt(outcome, call.attempt, call.max_retries)
           error == IF outcome = "ok" THEN call.last_error ELSE outcome
       IN  call' = [call EXCEPT
                      !.requests = @ + 1,
                      !.log = Append(@, outcome),
                      !.last_error = error,
                      !.attempt = IF after = "continue" THEN @ + 1 ELSE @,
                      !.pc = CASE after = "return" -> "returned"
                               [] after = "raise" -> "raised"
                               [] OTHER -> "loop",
                      !.result = IF after = "return" THEN Response(call.attempt) ELSE @,
                      !.raised = IF after = "raise" THEN error ELSE @]
  /\ UNCHANGED <<eng, now, ticks, polls, faults, posted, sender, stamp, sweep, lock, cursor,
                 queue, wf, pc, loc, notifs, doneCount, failCount>>

\* With max_retries >= 1 the last iteration either returns or raises, so the
\* raise after the loop is never reached.
NextRetry == SendCommandWithRetry \/ Attempt

\* The loop is sequential code: a call that has started keeps running.
SpecRetry == Init /\ [][NextRetry]_vars /\ WF_vars(Attempt)

(* --------------------------- the client's claims ------------------------ *)
\* C34: send_command_with_retry submits an action at most max_retries times,
\* stops at the first successful attempt and returns that attempt's response,
\* raises the last error after max_retries failures in a row, and always
\* comes to an end.
C34_RetryBounded ==
  /\ [](/\ Len(call.log) <= call.max_retries
        /\ \A k \in 1..(Len(call.log) - 1) : call.log[k] # "ok"
        /\ call.pc = "returned" =>
             /\ call.log[Len(call.log)] = "ok"
             /\ call.result = Response(Len(call.log) - 1)
        /\ call.pc = "raised" =>
             /\ Len(call.log) = call.max_retries
             /\ \A k \in 1..Len(call.log) : call.log[k] # "ok"
             /\ call.raised = call.log[Len(call.log)]
        /\ call.pc = "loop" => \A k \in 1..Len(call.log) : call.log[k] # "ok")
  /\ (call.pc = "loop" ~> call.pc \in {"returned", "raised"})

\* A call that failed twice with different errors and then either succeeded
\* or failed again has come to its end.
C34_Witness ==
  /\ call.pc \in {"returned", "raised"}
  /\ Len(call.log) = DefaultMaxRetries
  /\ call.log[1] # call.log[2]
  /\ call.calls = MaxCalls

(* --------------------------- the fallback's claim ----------------------- *)
\* C35: a workflow that belongs to a squad is resumed only by a message of a
\* member of that squad which the relatedness classifier accepted for it
\* (related, confidence >= 50); the group-wide fallback of route_message
\* resumes no squad's workflow.
C35_FallbackResumesUnscopedOnly ==
  \A i \in Instances :
    ( /\ pc[i] = "step"
      /\ loc[i].action = "resumed_workflow"
      /\ wf[loc[i].workflow].squad_id # 0 )
    => /\ ByRelatedness(loc[i])
       /\ loc[i].cands[Len(loc[i].answers)] = loc[i].workflow
       /\ wf[loc[i].workflow].squad_id = Sender(Cur(i))

(* --------------------------- the action list's claim -------------------- *)
\* Every action of the state's action list makes a valid command: the first
\* one's fields are present and well-formed, and so are the others'.
ListValid(st) ==
  /\ \A p \in {"squad", "date", "shift_start", "shift_end"} : st.fields[p] = "ok"
  /\ st.rest_ok

\* C36: a workflow is written EXECUTING, and a scheduling action is submitted,
\* only while every action of its action list (the first and the others) has
\* all required fields, a known squad, an 8-digit date and 4-digit times.
C36_WholeListValidated ==
  [][( \/ eng'.out.submitted > eng.out.submitted
       \/ (eng'.status = "EXECUTING" /\ eng.status # "EXECUTING") )
     => ListValid(eng'.state)]_vars

(* --------------------------- the queue's lifecycle ---------------------- *)
\* The status changes of a queue entry the lifecycle allows.
LifecycleStep(a, b) ==
  \/ a = "NONE" /\ b = "PENDING"
  \/ a \in {"PENDING", "FAILED"} /\ b = "PROCESSING"
  \/ a = "PROCESSING" /\ b \in {"DONE", "FAILED"}
  \/ a \in {"PENDING", "PROCESSING", "FAILED"} /\ b = "EXPIRED"

\* C37: the status of a queue entry changes only along the lifecycle (created
\* PENDING; PENDING or FAILED to PROCESSING; PROCESSING to DONE or FAILED; a
\* non-terminal status to EXPIRED), so DONE, EXPIRED and SKIPPED are never
\* left; and when the drain of a cycle finishes, no entry of its snapshot is
\* still PROCESSING.
C37_QueueLifecycle ==
  [][/\ \A m \in MsgIds :
          queue'[m].status # queue[m].status
            => LifecycleStep(queue[m].status, queue'[m].status)
     /\ \A i \in Instances :
          (pc[i] # "expire" /\ pc'[i] = "expire")
            => \A k \in 1..Len(loc'[i].pending_messages) :
                 queue'[loc'[i].pending_messages[k]].status \in {"DONE", "FAILED"}]_vars

(* --------------------------- absorbing statuses ------------------------- *)
\* One instance runs a cycle over workflows already under way while time
\* passes and a second process is started: its AgenticCoordinator runs
\* expire_old_workflows before the process gets to the lock.
NextAbsorb ==
  \/ PostAhead(MaxMsgs)
  \/ Tick
  \/ Start("A", MaxPollsRoute)
  \/ PollStep("A", Reliable)
  \/ Start("B", MaxPolls)

SpecAbsorb == InitRoute /\ [][NextAbsorb]_vars

\* C38: COMPLETED and EXPIRED are absorbing: a workflow stored with one of
\* them is never stored with an active status again, and no step submits
\* its commands, whatever engine steps, escalations and sweeps (also those of
\* another process started meanwhile) take place.
C38_TerminalAbsorbing ==
  [][/\ \A w \in WfIds :
          wf[w].status \in {"COMPLETED", "EXPIRED"}
            => wf'[w].status \notin ActiveStatuses
     /\ \A i \in Instances :
          (pc[i] = "handle" /\ pc'[i] # "handle")
            => wf[loc[i].workflow].status \notin {"COMPLETED", "EXPIRED"}]_vars

(* --------------------------- the ingest cursor -------------------------- *)
\* C39: the ingest cursor (the last message id saved) is never past a
\* message of the chat that has no row in the queue.
C39_CursorBehindUnqueued ==
  \A m \in MsgIds : (m <= posted /\ m <= cursor) => queue[m].rows > 0

(* --------------------------- the queue drains --------------------------- *)
MaxFails == 3
MaxMsgsLive == 1

\* A day and a minute: the step of the clock that makes an entry old.
DayStep == MessageExpiryHours * 60 + 1

Terminal == {"DONE", "EXPIRED", "SKIPPED"}

\* The queue rows the runs start from: entries earlier cycles have inserted
\* at minute 0 and left PENDING, FAILED, or PROCESSING (the holder was killed
\* in the middle of the entry, or its write of DONE failed).
LiveRows ==
  [rows : {1}, status : {"PENDING", "PROCESSING", "FAILED"},
   retry_count : {0, MaxRetryAttempts - 1}, error_message : {"none"}, created_at : {0}]

\* The messages 1..MaxMsgsLive have been posted; the last one may not have
\* been ingested yet; the lock file is absent or is the record of a process that
\* was killed at minute 0.
InitLive ==
  /\ now = 0 /\ ticks = 0 /\ polls = 0 /\ faults = 0 /\ posted = MaxMsgsLive
  /\ sender = [m \in MsgIds |-> IF m <= MaxMsgsLive THEN Roster(m) ELSE 0]
  /\ stamp = [m \in MsgIds |-> IF m <= MaxMsgsLive THEN m ELSE 0]
  /\ sweep = NoSweep
  /\ eng = NoEng
  /\ call = NoCall
  /\ lock \in {NoLock, CreateLockRecord("B", 0)}
  /\ cursor \in {MaxMsgsLive - 1, MaxMsgsLive}
  /\ queue \in [MsgIds -> LiveRows \cup {NoRow}]
  /\ \A m \in MsgIds : (m <= cursor) => (queue[m] # NoRow)
  /\ \A m \in MsgIds : (m > MaxMsgsLive) => (queue[m] = NoRow)
  /\ \A m \in MsgIds : (queue[m].status = "FAILED") => (queue[m].retry_count > 0)
  /\ wf = [k \in WfIds |-> NoWf]
  /\ pc = [i \in Instances |-> "idle"]
  /\ loc = [i \in Instances |-> InitLoc]
  /\ notifs = [poller_timeout |-> 0, workflow_escalation |-> 0,
               message_retry_exceeded |-> [m \in MsgIds |-> 0]]
  /\ doneCount = [m \in MsgIds |-> 0]
  /\ failCount = [m \in MsgIds |-> queue[m].retry_count]

\* Something is waiting for time to pass: an entry that is not terminal and
\* not old yet, or the lock file of a process that runs no more and that is
\* not stale yet.
Waiting ==
  \/ \E m \in MsgIds : /\ queue[m].rows > 0
                       /\ queue[m].status \notin Terminal
                       /\ queue[m].created_at >= now - MessageExpiryHours * 60
  \/ /\ lock.exists
     /\ pc[lock.holder] \in {"idle", "killed"}
     /\ AcquireOutcome(lock, now) = "yield"

\* Time advances (as long as something waits for it, which keeps the clock
\* of the runs bounded).
TickLive ==
  /\ Waiting
  /\ now' = now + DayStep
  /\ UNCHANGED <<call, eng, ticks, polls, faults, posted, sender, stamp, sweep, lock, cursor,
                 queue, wf, pc, loc, notifs, doneCount, failCount>>

\* The next process is started (cron), any number of times: the coordinator
\* is built, which sweeps the workflows, then poll() is called.
StartAgain(i) ==
  /\ pc[i] \in {"idle", "killed"}
  /\ wf' = ExpireOldWorkflows(wf, now)
  /\ pc' = [pc EXCEPT ![i] = "acquire"]
  /\ loc' = [loc EXCEPT ![i] = InitLoc]
  /\ UNCHANGED <<call, eng, now, ticks, polls, faults, posted, sender, stamp, sweep, lock,
                 cursor, queue, notifs, doneCount, failCount>>

\* Processing an entry raises, at most MaxFails times per entry.
RaisesAgain(i) ==
  /\ pc[i] = "route"
  /\ failCount[Cur(i)] < MaxFails
  /\ ProcessRaises(i)

\* The fetch of a cycle succeeds.
FetchSucceeds(i) == Fetch(i) /\ pc'[i] = "ingest"

LiveStep(i) ==
  \/ Acquire(i) \/ CreateLock(i) \/ Fetch(i) \/ Ingest(i, Reliable) \/ GetPending(i, Reliable)
  \/ BeginEntry(i, Reliable) \/ RouteMessage(i) \/ CreateWf(i, Reliable) \/ Step(i)
  \/ HandleOutputs(i) \/ MarkDone(i, Reliable) \/ RaisesAgain(i) \/ FailRead(i, Reliable)
  \/ FailWrite(i) \/ CheckRetry(i) \/ ExpireMessages(i) \/ Release(i)

NextLive ==
  \/ TickLive
  \/ StartAgain("A")
  \/ LiveStep("A")

\* Cycles keep being run, each runs to its end, time advances, and the chat
\* service does not fail for ever.
SpecLive ==
  /\ InitLive /\ [][NextLive]_vars
  /\ WF_vars(TickLive) /\ WF_vars(StartAgain("A")) /\ WF_vars(LiveStep("A"))
  /\ SF_vars(FetchSucceeds("A"))

====
